---- MODULE Spec2Model ----
(***************************************************************************)
(* Log ingestion and aggregation engine of the DynamoDB sizing tools.      *)
(*                                                                         *)
(*   postprocess/postprocess.py   metadata merge, peak tracker,            *)
(*                                process_data (the ingest run)            *)
(*                                traverse, parse_table_metadata           *)
(*   process_dynamodb_logs.py     parse_json_log_file, parse_csv_log_file, *)
(*                                detect_file_format,                      *)
(*                                parse_table_detailed_log, main           *)
(*                                                                         *)
(* Python dictionaries are functions whose DOMAIN is the set of keys that  *)
(* are present; {} is the empty function <<>>.  Python None is None (-1)   *)
(* in a number-typed slot and NoPeak in a dictionary-typed slot.  Metric   *)
(* values are floats in the code; only their order is used, so they are    *)
(* integers here.  Timestamps are kept verbatim by postprocess.py (never   *)
(* parsed), so they are opaque values 1, 2, ...                            *)
(***************************************************************************)
EXTENDS Integers, Sequences, FiniteSets, TLC

VARIABLES
    SampleMetaData,    \* SampleMetaData["Tables"]: table -> region -> record
    Peaks,             \* Peaks: metric -> region -> table -> op -> peak
    SampleCountData,   \* op -> sequence of time-series entries (Count)
    SampleP99Data,     \* op -> sequence of time-series entries (P99)
    pc,                \* position of process_data
    blocksLog,         \* history: the (table, region, table_data) merged so far
    jsonKind,          \* parse_json_log_file: shape of the document
    jsonRecords,       \* parse_json_log_file: records of Datapoints read so far
    jsonOut,           \* parse_json_log_file: timestamps_values
    jsonReturned,      \* parse_json_log_file: it has returned jsonOut
    is_sample_count,   \* parse_csv_log_file: 'sample_count' in file_path
    is_p99_latency,    \* parse_csv_log_file: 'p99_latency' in file_path
    csvLines,          \* parse_csv_log_file: lines read so far
    current_timestamp, \* parse_csv_log_file: buffered timestamp
    csvOut,            \* parse_csv_log_file: timestamps_values
    metaLines,         \* parse_table_metadata: lines read so far
    current_region,    \* parse_table_metadata: current_region
    current_table,     \* parse_table_metadata: current_table
    json_buffer,       \* parse_table_metadata: json_buffer
    inside_table,      \* parse_table_metadata: inside_table
    handed,            \* history: the calls of process_json_block
    metaReturned,      \* parse_table_metadata: it has returned
    readable,          \* detect_file_format: the file can be opened and read
    file_text,         \* detect_file_format: what f.read() gives
    detected,          \* detect_file_format: the value returned
    BASE_DIR,          \* postprocess.py: the folder given to `load`, as a tree
    request_table,     \* traverse: request_table
    SAMPLES,           \* postprocess.py: SAMPLES
    REGIONS,           \* postprocess.py: REGIONS
    TABLES,            \* postprocess.py: TABLES
    visited,           \* process_data: the iterations of the current loop done
    pending,           \* process_data: what the files just opened still hold
    raised,            \* the function an exception escaped from, "none" if none
    log_directory,     \* main: what is at the path of --target
    destination_directory, \* main: what is at the path of --destination
    region_dirs,       \* main: the directories of the source directory
    made_dirs,         \* main: os.makedirs has created the destination
    log_file,          \* main: the log file has been created
    scanned,           \* main: find_all_regions has been called
    regions,           \* main: regions
    region_index,      \* main: iterations of the loop over regions done
    leaf_read,         \* main: the regions whose individual log files were read
    output_files,      \* main: output_files (the region of each)
    exit_status,       \* main: exit status of the process, None while it runs
    uncaught,          \* main: an exception left main
    detailLines,       \* parse_table_detailed_log: lines read so far
    region_name,       \* parse_table_detailed_log: region_name
    detail_table,      \* parse_table_detailed_log: current_table
    table_info,        \* parse_table_detailed_log: table_info
    table_details,     \* parse_table_detailed_log: table_details
    detailReturned,    \* parse_table_detailed_log: it has returned
    find_directory,    \* find_individual_log_files_for_region: log_directory
    region_entries,    \* find_individual_log_files_for_region: what is under the region
    table_files,       \* find_individual_log_files_for_region: table_files
    findReturned,      \* find_individual_log_files_for_region: it has returned
    log_listing,       \* find_all_regions: os.listdir(log_directory), in its order
    regions_found,     \* find_all_regions: the list returned
    regionsReturned,   \* find_all_regions: it has returned
    operations,        \* create_excel_workbook: operations
    count_data,        \* create_excel_workbook: operations with sample_count_data
    p99_data,          \* create_excel_workbook: operations with p99_latency_data
    ws,                \* create_excel_workbook: the cells of the worksheet
    written,           \* history: every write to a cell of the worksheet
    sheet_pc           \* create_excel_workbook: position in the table's iteration

vars == <<SampleMetaData, Peaks, SampleCountData, SampleP99Data, pc, blocksLog,
          jsonKind, jsonRecords, jsonOut, jsonReturned,
          is_sample_count, is_p99_latency, csvLines, current_timestamp, csvOut,
          metaLines, current_region, current_table, json_buffer, inside_table,
          handed, metaReturned, readable, file_text, detected,
          BASE_DIR, request_table, SAMPLES, REGIONS, TABLES, visited, pending, raised,
          log_directory, destination_directory, region_dirs, made_dirs, log_file, scanned,
          regions, region_index, leaf_read, output_files, exit_status, uncaught,
          detailLines, region_name, detail_table, table_info, table_details, detailReturned,
          find_directory, region_entries, table_files, findReturned,
          log_listing, regions_found, regionsReturned,
          operations, count_data, p99_data, ws, written, sheet_pc>>

postVars == <<SampleMetaData, Peaks, SampleCountData, SampleP99Data, pc, blocksLog>>
dataVars == <<SampleMetaData, Peaks, SampleCountData, SampleP99Data, blocksLog>>
jsonVars == <<jsonKind, jsonRecords, jsonOut, jsonReturned>>
csvVars  == <<is_sample_count, is_p99_latency, csvLines, current_timestamp, csvOut>>
metaVars == <<metaLines, current_region, current_table, json_buffer, inside_table,
              handed, metaReturned>>

detectVars == <<readable, file_text, detected>>
runVars == <<BASE_DIR, request_table, SAMPLES, REGIONS, TABLES, visited, pending, raised>>

mainVars == <<log_directory, destination_directory, region_dirs, made_dirs, log_file, scanned,
              regions, region_index, leaf_read, output_files, exit_status, uncaught>>
detailVars == <<detailLines, region_name, detail_table, table_info, table_details,
                detailReturned>>
findVars == <<find_directory, region_entries, table_files, findReturned>>
regionsVars == <<log_listing, regions_found, regionsReturned>>
sheetVars == <<operations, count_data, p99_data, ws, written, sheet_pc>>
toolVars == <<findVars, regionsVars, sheetVars>>
excelVars == <<mainVars, detailVars, toolVars>>

\* the components modelled after the parsers of datapoints
laterVars == <<metaVars, detectVars, runVars, excelVars>>

----------------------------------------------------------------------------
(* Bounds *)

\* metadata blocks merged in one behaviour
MaxBlocks == 3
\* metadata blocks plus datapoints read in one ingest run
MaxInputs == 3
\* records in the Datapoints list of one structured document
MaxRecords == 3
\* lines of one delimited-text file
MaxLines == 3

----------------------------------------------------------------------------
(* Python values and dictionaries *)

None == -1

\* None where a text is expected
NoText == "<None>"

\* None where a dictionary is expected
NoneDict == [none |-> TRUE]

NoPeak == NoneDict

EmptyDict == <<>>

\* d.get(k, default)
Get(d, k, default) == IF k \in DOMAIN d THEN d[k] ELSE default

\* d[k] = v
Put(d, k, v) == [x \in (DOMAIN d) \cup {k} |-> IF x = k THEN v ELSE d[x]]

\* d.setdefault(k, v), the dictionary afterwards
SetDefault(d, k, v) == IF k \in DOMAIN d THEN d ELSE Put(d, k, v)

\* max(a, b) of two numbers
PyMax(a, b) == IF b > a THEN b ELSE a

----------------------------------------------------------------------------
(* Input universe of the ingest run *)

DDB_OPERATIONS == {"Query", "BatchWriteItem", "DeleteItem", "GetItem", "PutItem", "Scan"}

\* operation directories present under a table directory
OperationDirs == {"Query", "UpdateItem"}

TableDirs == {"orders", "users"}
RegionDirs == {"us-east-1"}

\* sample directories the ingest run reads
RunSamples == {"dynamo_metrics_logs_1"}

Timestamps == {1, 2, 3}
MetricValues == {5, 9}

\* "HASH"/"RANGE" key schema lists
KeySchemaHash == <<[AttributeName |-> "id", KeyType |-> "HASH"]>>
KeySchemaHashRange == <<[AttributeName |-> "id", KeyType |-> "HASH"],
                        [AttributeName |-> "ts", KeyType |-> "RANGE"]>>

\* describe-table documents ("Table" objects).  Fields hold the types that
\* describe-table emits: numbers (or null) for counts, lists for KeySchema,
\* LocalSecondaryIndexes and Replicas, a string for TableClass, a boolean for
\* StreamEnabled; any key may be missing.
TableDocs ==
    { [ItemCount |-> None, LocalSecondaryIndexes |-> <<"lsi1">>, Replicas |-> <<>>,
       StreamSpecification |-> [StreamEnabled |-> FALSE]],
      [ItemCount |-> 80,
       ProvisionedThroughput |-> [ReadCapacityUnits |-> 5, WriteCapacityUnits |-> 10]],
      [ItemCount |-> 100,
       ProvisionedThroughput |->
           [ReadCapacityUnits |-> 10, WriteCapacityUnits |-> 5, NumberOfDecreasesToday |-> 0]],
      [Replicas |-> <<"us-west-2">>, StreamSpecification |-> [StreamEnabled |-> TRUE]],
      [KeySchema |-> <<>>, TableClassSummary |-> [TableClass |-> ""]],
      [ItemCount |-> 100, StreamSpecification |-> [StreamEnabled |-> FALSE],
       KeySchema |-> KeySchemaHash, TableClassSummary |-> [TableClass |-> "STANDARD"]],
      [ItemCount |-> 80, StreamSpecification |-> [StreamEnabled |-> TRUE],
       KeySchema |-> KeySchemaHashRange,
       TableClassSummary |-> [TableClass |-> "STANDARD_INFREQUENT_ACCESS"]] }

\* What json.loads of a block's lines gives: a decode error, or a document
\* with or without a "Table" object.
BadJson == [JSONDecodeError |-> TRUE]
BlockDocs == {BadJson, EmptyDict} \cup { [Table |-> d] : d \in TableDocs }

\* A JSON value that is a list: it has no get.
ListValue == [list |-> TRUE]

\* A JSON string where a number is expected (it stands for "many"; no number
\* of the documents is negative).
Many == -3

\* Documents that decode and whose merge can raise: a list, a "Table" that is
\* a list, a "ProvisionedThroughput" that is a list, an "ItemCount" that is a
\* string.
RaisingDocs ==
    { ListValue,
      [Table |-> ListValue],
      [Table |-> [ItemCount |-> 100, ProvisionedThroughput |-> ListValue]],
      [Table |-> [ItemCount |-> Many]] }

\* Documents of the table_detailed.log files of an ingest run.
RunBlockDocs ==
    { BadJson,
      [Table |-> [ItemCount |-> 100, StreamSpecification |-> [StreamEnabled |-> FALSE],
                  KeySchema |-> KeySchemaHash,
                  TableClassSummary |-> [TableClass |-> "STANDARD"]]],
      [Table |-> [ItemCount |-> 80, StreamSpecification |-> [StreamEnabled |-> TRUE],
                  KeySchema |-> KeySchemaHashRange]] }

----------------------------------------------------------------------------
(* Metadata Merge Engine: update_sample_metadata *)

\* max_or_existing without the max: the incoming value replaces the old one.
max_or_existing_NewWins(existing, field, new_value) ==
    LET old_value == Get(existing, field, None) IN
    IF old_value = None THEN new_value
    ELSE IF new_value = None THEN old_value
    ELSE new_value

max_or_existing(existing, field, new_value) ==
    LET old_value == Get(existing, field, None) IN
    IF old_value = None THEN new_value
    ELSE IF new_value = None THEN old_value
    ELSE PyMax(old_value, new_value)

\* prefer_truthy turned round: a non-empty incoming value replaces the old one.
prefer_truthy_LastWins(existing, field, new_value, empty) ==
    IF new_value # empty \/ field \notin DOMAIN existing THEN new_value ELSE existing[field]

\* new_value if not existing.get(field) else existing[field]; `empty` is the
\* falsy value of the field's type ([] or "").
prefer_truthy(existing, field, new_value, empty) ==
    IF field \notin DOMAIN existing \/ existing[field] = empty
    THEN new_value
    ELSE existing[field]

\* bool(x) of a list
NonEmpty(list) == list # <<>>

\* The flag expression without the existing value: the last block decides.
sticky_true_Overwrite(existing, field, reported) == reported

\* existing.get(field, False) or <reported> (lines 98-100)
sticky_true(existing, field, reported) == Get(existing, field, FALSE) \/ reported

\* The record built at lines 92-102 (it has no "Ops" key).
MergedRecord(existing, table_data) ==
    LET key_schema == Get(table_data, "KeySchema", <<>>)
        throughput == Get(table_data, "ProvisionedThroughput", EmptyDict)
        class_summary == Get(table_data, "TableClassSummary", EmptyDict)
        stream_spec == Get(table_data, "StreamSpecification", EmptyDict)
    IN  [ItemCount |-> max_or_existing(existing, "ItemCount", Get(table_data, "ItemCount", None)),
         KeySchema |-> prefer_truthy(existing, "KeySchema", key_schema, <<>>),
         RCU |-> max_or_existing(existing, "RCU", Get(throughput, "ReadCapacityUnits", None)),
         WCU |-> max_or_existing(existing, "WCU", Get(throughput, "WriteCapacityUnits", None)),
         NumDecreases |-> max_or_existing(existing, "NumDecreases",
                                          Get(throughput, "NumberOfDecreasesToday", None)),
         HasLocalSecondaryIndexes |->
             sticky_true(existing, "HasLocalSecondaryIndexes",
                         NonEmpty(Get(table_data, "LocalSecondaryIndexes", <<>>))),
         HasReplicas |->
             sticky_true(existing, "HasReplicas", NonEmpty(Get(table_data, "Replicas", <<>>))),
         StreamsEnabled |->
             sticky_true(existing, "StreamsEnabled", Get(stream_spec, "StreamEnabled", FALSE)),
         TableClassSummary |->
             prefer_truthy(existing, "TableClassSummary", Get(class_summary, "TableClass", ""), "")]

\* Lines 76-101 raise: table_data.get of a list (line 76), throughput.get of
\* a list (line 94), max of a number and a string (line 90).
merge_raises(existing, table_data) ==
    \/ table_data = ListValue
    \/ Get(table_data, "ProvisionedThroughput", EmptyDict) = ListValue
    \/ /\ Get(existing, "ItemCount", None) # None
       /\ Get(table_data, "ItemCount", None) = Many

\* SampleMetaData["Tables"] after update_sample_metadata(region, table_name, table_data),
\* or after the lines of it that ran before it raised
update_sample_metadata(meta, region, table_name, table_data) ==
    LET tables == SetDefault(meta, table_name, EmptyDict)
        existing == Get(tables[table_name], region, EmptyDict)
    IN  IF merge_raises(existing, table_data) THEN tables
        ELSE LET record == SetDefault(MergedRecord(existing, table_data), "Ops", EmptyDict)
             IN  Put(tables, table_name, Put(tables[table_name], region, record))

\* SampleMetaData["Tables"] after process_json_block(region, table_name, lines),
\* full_json being what json.loads gives for the lines
process_json_block(meta, region, table_name, full_json) ==
    IF full_json = BadJson \/ full_json = ListValue THEN meta
    ELSE update_sample_metadata(meta, region, table_name, Get(full_json, "Table", EmptyDict))

\* process_json_block ends in one of its except clauses (lines 64-67).
block_discarded(meta, region, table_name, full_json) ==
    \/ full_json = BadJson
    \/ full_json = ListValue
    \/ merge_raises(Get(Get(meta, table_name, EmptyDict), region, EmptyDict),
                    Get(full_json, "Table", EmptyDict))

----------------------------------------------------------------------------
(* Peak Tracker *)

_ensure_table_region(meta, table, region) ==
    LET tbls == SetDefault(meta, table, EmptyDict)
    IN  Put(tbls, table, SetDefault(tbls[table], region, EmptyDict))

_ensure_ops_block(meta, table, region, op) ==
    LET m1 == _ensure_table_region(meta, table, region)
        reg == SetDefault(m1[table][region], "Ops", EmptyDict)
        o == SetDefault(SetDefault(reg["Ops"], op, EmptyDict)[op],
                        "Peak", [Count |-> NoPeak, P99 |-> NoPeak])
    IN  Put(m1, table, Put(m1[table], region, Put(reg, "Ops", Put(reg["Ops"], op, o))))

\* Replaces with >= for >: a later observation of the maximum takes the peak.
Replaces_TieReplaces(cur, value) ==
    \/ cur = NoPeak
    \/ Get(cur, "value", None) = None
    \/ value >= cur["value"]

\* Replaces without the comparison: the first observation keeps the peak.
Replaces_FirstOnly(cur, value) ==
    \/ cur = NoPeak
    \/ Get(cur, "value", None) = None

\* Replaces without the comparison: the last observation takes the peak.
Replaces_LastWins(cur, value) == TRUE

\* cur is None or cur.get("value") is None or value > cur["value"]
Replaces(cur, value) ==
    \/ cur = NoPeak
    \/ Get(cur, "value", None) = None
    \/ value > cur["value"]

\* Lines 117-121 with the test of line 118 after line 120: the entries of the
\* key are made before the value is looked at.
_update_peak_in_tables_EnsuresFirst(meta, table, region, op, metric, timestamp, value) ==
    LET m1 == _ensure_ops_block(meta, table, region, op)
        op_entry == m1[table][region]["Ops"][op]
        cur == Get(op_entry["Peak"], metric, NoPeak)
    IN  IF value # None /\ Replaces(cur, value)
        THEN Put(m1, table, Put(m1[table], region,
               Put(m1[table][region], "Ops",
                 Put(m1[table][region]["Ops"], op,
                   Put(op_entry, "Peak",
                     Put(op_entry["Peak"], metric,
                         [timestamp |-> timestamp, value |-> value]))))))
        ELSE m1

_update_peak_in_tables(meta, table, region, op, metric, timestamp, value) ==
    IF value = None THEN meta
    ELSE LET m1 == _ensure_ops_block(meta, table, region, op)
             op_entry == m1[table][region]["Ops"][op]
             cur == Get(op_entry["Peak"], metric, NoPeak)
         IN  IF Replaces(cur, value)
             THEN Put(m1, table, Put(m1[table], region,
                    Put(m1[table][region], "Ops",
                      Put(m1[table][region]["Ops"], op,
                        Put(op_entry, "Peak",
                          Put(op_entry["Peak"], metric,
                              [timestamp |-> timestamp, value |-> value]))))))
             ELSE m1

_update_peak_in_global(peaks, region, table, op, metric, timestamp, value) ==
    IF value = None THEN peaks
    ELSE LET p1 == SetDefault(peaks, metric, EmptyDict)
             m == SetDefault(p1[metric], region, EmptyDict)
             reg == SetDefault(m[region], table, EmptyDict)
             t == reg[table]
             cur == Get(t, op, NoPeak)
             t2 == IF Replaces(cur, value)
                   THEN Put(t, op, [timestamp |-> timestamp, value |-> value])
                   ELSE t
         IN  Put(p1, metric, Put(m, region, Put(reg, table, t2)))

----------------------------------------------------------------------------
(* Aggregate Builder: process_data *)

\* Records of a Count leaf file's Datapoints: with and without SampleCount.
CountRecords ==
    { [Timestamp |-> t, SampleCount |-> v] : t \in Timestamps, v \in MetricValues }
        \cup { [Timestamp |-> 1] }

\* Records of a Latency leaf file's Datapoints: with and without a p99.
P99Records ==
    { [Timestamp |-> t, ExtendedStatistics |-> [p99 |-> v]] : t \in Timestamps, v \in MetricValues }
        \cup { [Timestamp |-> 1, ExtendedStatistics |-> EmptyDict] }

Entry(ts, val, table, region, sample) ==
    [timestamp |-> ts, value |-> val, table |-> table, region |-> region, sample |-> sample]

RECURSIVE TotalLen(_, _)
TotalLen(data, ops) ==
    IF ops = {} THEN 0
    ELSE LET op == CHOOSE o \in ops : TRUE
         IN  Len(data[op]) + TotalLen(data, ops \ {op})

\* blocks merged and datapoints read so far
Inputs == Len(blocksLog) + TotalLen(SampleCountData, DDB_OPERATIONS)
              + TotalLen(SampleP99Data, DDB_OPERATIONS)

\* Lines 162-167: the state process_data starts from.
InitPost ==
    /\ SampleCountData = [op \in DDB_OPERATIONS |-> <<>>]
    /\ SampleP99Data = [op \in DDB_OPERATIONS |-> <<>>]
    /\ SampleMetaData = EmptyDict
    /\ Peaks = [Count |-> EmptyDict, P99 |-> EmptyDict]
    /\ blocksLog = <<>>

\* The metadata blocks logged: a block whose lines do not decode merges nothing.
Logged(log, region, table, full_json) ==
    IF full_json = BadJson THEN log
    ELSE Append(log, [table |-> table, region |-> region,
                      data |-> Get(full_json, "Table", EmptyDict)])

\* One block of a sample's table_detailed.log, flushed by parse_table_metadata.
MergeBlock(region, table, full_json) ==
    /\ SampleMetaData' = process_json_block(SampleMetaData, region, table, full_json)
    /\ blocksLog' = Logged(blocksLog, region, table, full_json)

\* Lines 186-198: one record of a Count file.
CountRecord(operation, table, sample, region, dp) ==
    LET ts == Get(dp, "Timestamp", None)
        val == Get(dp, "SampleCount", None)
    IN  /\ SampleCountData' = [SampleCountData EXCEPT
               ![operation] = Append(@, Entry(ts, val, table, region, sample))]
        /\ SampleMetaData' =
               _update_peak_in_tables(SampleMetaData, table, region, operation, "Count", ts, val)
        /\ Peaks' = _update_peak_in_global(Peaks, region, table, operation, "Count", ts, val)

\* Lines 215-227: one record of a Latency file.
P99Record(operation, table, sample, region, dp) ==
    LET ts == Get(dp, "Timestamp", None)
        val == Get(Get(dp, "ExtendedStatistics", EmptyDict), "p99", None)
    IN  /\ SampleP99Data' = [SampleP99Data EXCEPT
               ![operation] = Append(@, Entry(ts, val, table, region, sample))]
        /\ SampleMetaData' =
               _update_peak_in_tables(SampleMetaData, table, region, operation, "P99", ts, val)
        /\ Peaks' = _update_peak_in_global(Peaks, region, table, operation, "P99", ts, val)

\* One block of some table_detailed.log merged (lines 36, 59-63).
MergeStep ==
    /\ Inputs < MaxInputs
    /\ \E region \in RegionDirs, table \in TableDirs, full_json \in RunBlockDocs :
           MergeBlock(region, table, full_json)
    /\ UNCHANGED <<Peaks, SampleCountData, SampleP99Data, pc>>

\* One record of some Count leaf file read (lines 174-198).
CountStep ==
    /\ Inputs < MaxInputs
    /\ \E operation \in DDB_OPERATIONS \cap OperationDirs, table \in TableDirs,
          sample \in RunSamples, region \in RegionDirs, dp \in CountRecords :
           CountRecord(operation, table, sample, region, dp)
    /\ UNCHANGED <<SampleP99Data, pc, blocksLog>>

\* One record of some Latency leaf file read (lines 203-227).
P99Step ==
    /\ Inputs < MaxInputs
    /\ \E operation \in DDB_OPERATIONS \cap OperationDirs, table \in TableDirs,
          sample \in RunSamples, region \in RegionDirs, dp \in P99Records :
           P99Record(operation, table, sample, region, dp)
    /\ UNCHANGED <<SampleCountData, pc, blocksLog>>

(* The ingest run, process_data.  os.listdir and set iteration fix no order, *)
(* so blocks and leaf files come in any order inside their loop; the three   *)
(* loops run one after the other.                                            *)

\* Lines 170-171.
ParseMetadata == pc = "metadata" /\ MergeStep

EndMetadata ==
    /\ pc = "metadata"
    /\ pc' = "count"
    /\ UNCHANGED <<SampleMetaData, Peaks, SampleCountData, SampleP99Data, blocksLog>>

\* Lines 174-200.
ReadCount == pc = "count" /\ CountStep

EndCount ==
    /\ pc = "count"
    /\ pc' = "p99"
    /\ UNCHANGED <<SampleMetaData, Peaks, SampleCountData, SampleP99Data, blocksLog>>

\* Lines 203-229.
ReadP99 == pc = "p99" /\ P99Step

\* Lines 231-243: the four artifacts are written.
Serialize ==
    /\ pc = "p99"
    /\ pc' = "done"
    /\ UNCHANGED <<SampleMetaData, Peaks, SampleCountData, SampleP99Data, blocksLog>>

\* No document and no file is being parsed.
InitIdleJson ==
    jsonKind = "none" /\ jsonRecords = <<>> /\ jsonOut = <<>> /\ jsonReturned = FALSE

InitIdleCsv ==
    /\ is_sample_count = FALSE /\ is_p99_latency = FALSE
    /\ csvLines = <<>> /\ current_timestamp = None /\ csvOut = <<>>

\* parse_table_metadata reads no file.
InitIdleMeta ==
    /\ metaLines = <<>> /\ current_region = NoText /\ current_table = NoText
    /\ json_buffer = <<>> /\ inside_table = FALSE /\ handed = <<>> /\ metaReturned = FALSE

\* detect_file_format looks at no file.
InitIdleDetect == readable = FALSE /\ file_text = <<>> /\ detected = "idle"

\* No folder is loaded (lines 15-18).
InitIdleRun ==
    /\ BASE_DIR = [node |-> "missing"] /\ request_table = NoText
    /\ SAMPLES = {} /\ REGIONS = {} /\ TABLES = {}
    /\ visited = {} /\ pending = <<>> /\ raised = "none"

\* What main has done before its first statement.
InitMainProgress ==
    /\ made_dirs = FALSE /\ log_file = FALSE /\ scanned = FALSE
    /\ regions = <<>> /\ region_index = 0
    /\ leaf_read = {} /\ output_files = <<>>
    /\ exit_status = None /\ uncaught = FALSE

\* main is not running.
InitIdleMain ==
    /\ log_directory = "missing" /\ destination_directory = "missing"
    /\ region_dirs = EmptyDict
    /\ InitMainProgress

\* Lines 570, 588-589.
InitDetailProgress ==
    /\ detailLines = <<>> /\ detail_table = NoText /\ table_info = EmptyDict
    /\ table_details = EmptyDict /\ detailReturned = FALSE

\* parse_table_detailed_log is not running.
InitIdleDetail == region_name = NoText /\ InitDetailProgress

\* find_individual_log_files_for_region is not running.
InitIdleFind ==
    /\ find_directory = <<>> /\ region_entries = {}
    /\ table_files = EmptyDict /\ findReturned = FALSE

\* find_all_regions is not running.
InitIdleRegions == log_listing = <<>> /\ regions_found = <<>> /\ regionsReturned = FALSE

\* create_excel_workbook is not running.
InitIdleSheet ==
    /\ operations = <<>> /\ count_data = {} /\ p99_data = {}
    /\ ws = EmptyDict /\ written = {} /\ sheet_pc = "idle"

InitIdleTools == InitIdleFind /\ InitIdleRegions /\ InitIdleSheet

InitIdleExcel == InitIdleMain /\ InitIdleDetail /\ InitIdleTools

InitIdleLater == InitIdleMeta /\ InitIdleDetect /\ InitIdleRun /\ InitIdleExcel

InitIdle == InitIdleJson /\ InitIdleCsv /\ InitIdleLater

Init ==
    /\ InitPost
    /\ pc = "metadata"
    /\ InitIdle

Next ==
    \/ (ParseMetadata /\ UNCHANGED <<jsonVars, csvVars, laterVars>>)
    \/ (EndMetadata /\ UNCHANGED <<jsonVars, csvVars, laterVars>>)
    \/ (ReadCount /\ UNCHANGED <<jsonVars, csvVars, laterVars>>)
    \/ (EndCount /\ UNCHANGED <<jsonVars, csvVars, laterVars>>)
    \/ (ReadP99 /\ UNCHANGED <<jsonVars, csvVars, laterVars>>)
    \/ (Serialize /\ UNCHANGED <<jsonVars, csvVars, laterVars>>)

Spec == Init /\ [][Next]_vars

(* The Peak Tracker and the Metadata Merge Engine as components: the same    *)
(* steps, called in any order.                                               *)
InitApi ==
    /\ InitPost
    /\ pc = "any"
    /\ InitIdle

NextApi ==
    \/ (MergeStep /\ UNCHANGED <<jsonVars, csvVars, laterVars>>)
    \/ (CountStep /\ UNCHANGED <<jsonVars, csvVars, laterVars>>)
    \/ (P99Step /\ UNCHANGED <<jsonVars, csvVars, laterVars>>)

SpecApi == InitApi /\ [][NextApi]_vars

(* The Metadata Merge Engine alone: blocks of any table and region, with any *)
(* document, merged one after the other.                                     *)
MergeAny ==
    /\ Len(blocksLog) < MaxBlocks
    /\ \E region \in RegionDirs, table \in TableDirs, full_json \in BlockDocs :
           MergeBlock(region, table, full_json)
    /\ UNCHANGED <<Peaks, SampleCountData, SampleP99Data, pc>>

InitMerge ==
    /\ InitPost
    /\ pc = "merge"
    /\ InitIdle

NextMerge == MergeAny /\ UNCHANGED <<jsonVars, csvVars, laterVars>>

SpecMerge == InitMerge /\ [][NextMerge]_vars

\* process_json_block called with a block that it discards.
DiscardBlock ==
    /\ \E region \in RegionDirs, table \in TableDirs, full_json \in RaisingDocs \cup {BadJson} :
           /\ block_discarded(SampleMetaData, region, table, full_json)
           /\ SampleMetaData' = process_json_block(SampleMetaData, region, table, full_json)
    /\ UNCHANGED <<Peaks, SampleCountData, SampleP99Data, pc, blocksLog>>

\* Blocks that merge and blocks that are discarded, in any order.
NextDiscard ==
    \/ (MergeAny /\ UNCHANGED <<jsonVars, csvVars, laterVars>>)
    \/ (DiscardBlock /\ UNCHANGED <<jsonVars, csvVars, laterVars>>)

SpecDiscard == InitMerge /\ [][NextDiscard]_vars

----------------------------------------------------------------------------
(* Datapoint parsers of process_dynamodb_logs.py *)

(* Text fields.  A field is a number (float() accepts it), a timestamp       *)
(* written in one form (strptime accepts it with the format of that form and *)
(* no other) or a word (neither accepts it).                                 *)
Number(v) == [kind |-> "number", value |-> v]
Time(form, instant) == [kind |-> "time", form |-> form, instant |-> instant]
Word(text) == [kind |-> "word", text |-> text]

FormatOffset == "%Y-%m-%dT%H:%M:%S+00:00"
FormatZ == "%Y-%m-%dT%H:%M:%SZ"
FormatSeconds == "%Y-%m-%d %H:%M:%S"
FormatMinutes == "%Y-%m-%d %H:%M"
\* a timestamp form no format of the parsers accepts
FormatOther == "%d/%m/%Y %H:%M"

\* datetime.strptime(text, format): the instant, or None for ValueError
strptime(text, format) ==
    IF text.kind = "time" /\ text.form = format THEN text.instant ELSE None

\* float(text): the number, or None for ValueError
float(text) == IF text.kind = "number" THEN text.value ELSE None

\* Records of the Datapoints list of a structured document.
JsonTimestamps == {Time(FormatZ, 1), Time(FormatZ, 2), Time(FormatOffset, 1)}

JsonValueFields ==
    { EmptyDict,
      [SampleCount |-> 5],
      [SampleCount |-> None, ExtendedStatistics |-> [p99 |-> 7]],
      [ExtendedStatistics |-> [p99 |-> 7]],
      [ExtendedStatistics |-> EmptyDict],
      [ExtendedStatistics |-> NoneDict] }

JsonDatapoints ==
    JsonValueFields \cup { ("Timestamp" :> t) @@ f : t \in JsonTimestamps, f \in JsonValueFields }

\* Lines 398-407 with the SampleCount test reduced to the key being there: a
\* null SampleCount hides the record's p99.
json_value_NullHides(datapoint) ==
    IF "SampleCount" \in DOMAIN datapoint THEN datapoint["SampleCount"]
    ELSE IF "ExtendedStatistics" \in DOMAIN datapoint
            /\ datapoint["ExtendedStatistics"] # NoneDict
            /\ "p99" \in DOMAIN datapoint["ExtendedStatistics"]
         THEN datapoint["ExtendedStatistics"]["p99"]
         ELSE None

\* Lines 398-407: the value of a record, None when it has none.
json_value(datapoint) ==
    IF "SampleCount" \in DOMAIN datapoint /\ datapoint["SampleCount"] # None
    THEN datapoint["SampleCount"]
    ELSE IF "ExtendedStatistics" \in DOMAIN datapoint /\ datapoint["ExtendedStatistics"] # NoneDict
         THEN IF "p99" \in DOMAIN datapoint["ExtendedStatistics"]
              THEN datapoint["ExtendedStatistics"]["p99"]
              ELSE None
         ELSE None

\* Lines 393-415: timestamps_values after one record of the loop.
json_datapoint(timestamps_values, datapoint) ==
    IF "Timestamp" \notin DOMAIN datapoint THEN timestamps_values
    ELSE LET timestamp_str == datapoint["Timestamp"]
             value == json_value(datapoint)
         IN  IF value = None THEN timestamps_values
             ELSE IF strptime(timestamp_str, FormatZ) = None THEN timestamps_values
             ELSE Append(timestamps_values, <<strptime(timestamp_str, FormatZ), value>>)

\* A document is a structured document with a Datapoints list, one without
\* (line 392), or content json.loads rejects (line 389; [] at line 419).
JsonKinds == {"list", "no Datapoints", "undecodable"}

InitJson ==
    /\ jsonKind \in JsonKinds
    /\ jsonRecords = <<>>
    /\ jsonOut = <<>>
    /\ jsonReturned = FALSE

\* One round of the loop of line 393.
JsonRecord ==
    /\ jsonKind = "list"
    /\ ~jsonReturned
    /\ Len(jsonRecords) < MaxRecords
    /\ \E datapoint \in JsonDatapoints :
           /\ jsonRecords' = Append(jsonRecords, datapoint)
           /\ jsonOut' = json_datapoint(jsonOut, datapoint)
    /\ UNCHANGED <<jsonKind, jsonReturned>>

\* Lines 419, 421.
JsonReturn ==
    /\ ~jsonReturned
    /\ jsonReturned' = TRUE
    /\ UNCHANGED <<jsonKind, jsonRecords, jsonOut>>

(* parse_csv_log_file.  A line is the list `parts` of its fields, the marker *)
(* first; the empty list is a blank line.                                    *)
DATAPOINTS == Word("DATAPOINTS")
EXTENDEDSTATISTICS == Word("EXTENDEDSTATISTICS")
Unit == Word("Milliseconds")

CsvLineSet ==
    { <<>>,
      <<Word("TABLE:")>>,
      <<DATAPOINTS>>,
      <<DATAPOINTS, Time(FormatOffset, 1), Unit>>,
      <<DATAPOINTS, Time(FormatZ, 2), Unit>>,
      <<DATAPOINTS, Time(FormatOther, 3), Unit>>,
      <<DATAPOINTS, Number(5), Time(FormatOffset, 1), Unit>>,
      <<EXTENDEDSTATISTICS>>,
      <<EXTENDEDSTATISTICS, Number(19)>>,
      <<EXTENDEDSTATISTICS, Word("n/a")>> }

\* Lines 291-296 and 315-320.
timestamp_formats == <<FormatOffset, FormatZ, FormatSeconds, FormatMinutes>>

\* Lines 298-304 and 322-328: the instant the first matching format gives,
\* None when no format matches.
first_format(timestamp_str) ==
    LET matching == {i \in 1..Len(timestamp_formats) :
                         strptime(timestamp_str, timestamp_formats[i]) # None}
    IN  IF matching = {} THEN None
        ELSE strptime(timestamp_str,
                      timestamp_formats[CHOOSE i \in matching : \A j \in matching : i <= j])

CsvState(ts, out) == [current_timestamp |-> ts, timestamps_values |-> out]

\* Lines 331-342 without line 340: the buffered timestamp is not consumed.
csv_line_KeepsTimestamp(st, parts, sample_count, p99_latency) ==
    IF parts # <<>> /\ parts[1] = EXTENDEDSTATISTICS /\ st.current_timestamp # None
       /\ Len(parts) >= 2 /\ float(parts[2]) # None
    THEN CsvState(st.current_timestamp,
                  Append(st.timestamps_values, <<st.current_timestamp, float(parts[2])>>))
    ELSE IF parts # <<>> /\ parts[1] = DATAPOINTS /\ ~(sample_count /\ Len(parts) >= 3)
            /\ p99_latency /\ Len(parts) >= 2 /\ first_format(parts[2]) # None
         THEN CsvState(first_format(parts[2]), st.timestamps_values)
         ELSE st

\* Lines 273-342: current_timestamp and timestamps_values after one line.
csv_line(st, parts, sample_count, p99_latency) ==
    IF parts = <<>> THEN st
    ELSE IF parts[1] = DATAPOINTS
    THEN IF sample_count /\ Len(parts) >= 3
         THEN IF float(parts[2]) # None /\ first_format(parts[3]) # None
              THEN CsvState(st.current_timestamp,
                            Append(st.timestamps_values,
                                   <<first_format(parts[3]), float(parts[2])>>))
              ELSE st
         ELSE IF p99_latency /\ Len(parts) >= 2
              THEN IF first_format(parts[2]) # None
                   THEN CsvState(first_format(parts[2]), st.timestamps_values)
                   ELSE st
              ELSE st
    ELSE IF parts[1] = EXTENDEDSTATISTICS /\ st.current_timestamp # None
    THEN IF Len(parts) >= 2 /\ float(parts[2]) # None
         THEN CsvState(None, Append(st.timestamps_values,
                                    <<st.current_timestamp, float(parts[2])>>))
         ELSE st
    ELSE st

\* Lines 260-271: the file role comes from the path.
InitCsv ==
    /\ is_sample_count \in BOOLEAN
    /\ is_p99_latency \in BOOLEAN
    /\ csvLines = <<>>
    /\ current_timestamp = None
    /\ csvOut = <<>>

\* One round of the loop of line 273.
CsvLine ==
    /\ Len(csvLines) < MaxLines
    /\ \E parts \in CsvLineSet :
           LET st == csv_line(CsvState(current_timestamp, csvOut), parts,
                              is_sample_count, is_p99_latency)
           IN  /\ csvLines' = Append(csvLines, parts)
               /\ current_timestamp' = st.current_timestamp
               /\ csvOut' = st.timestamps_values
    /\ UNCHANGED <<is_sample_count, is_p99_latency>>

NextJson ==
    \/ (JsonRecord /\ UNCHANGED <<postVars, csvVars, laterVars>>)
    \/ (JsonReturn /\ UNCHANGED <<postVars, csvVars, laterVars>>)

NextCsv == CsvLine /\ UNCHANGED <<postVars, jsonVars, laterVars>>

\* parse_json_log_file on one document
InitJsonAlone == InitPost /\ pc = "idle" /\ InitJson /\ InitIdleCsv /\ InitIdleLater

SpecJson == InitJsonAlone /\ [][NextJson]_vars

\* parse_csv_log_file on one file
InitCsvAlone == InitPost /\ pc = "idle" /\ InitCsv /\ InitIdleJson /\ InitIdleLater

SpecCsv == InitCsvAlone /\ [][NextCsv]_vars

----------------------------------------------------------------------------
(* ASCII-table metadata parser: parse_table_metadata *)

\* lines of one table_detailed.log
MaxMetaLines == 4

(* Lines of a table_detailed.log.  A delimiter line starts with "=== Table:"; *)
(* the pattern of line 46 matches it and gives the two groups, or does not    *)
(* match ("=== Table: users").  "=== Table:  (Region: ) ===" matches with two *)
(* empty groups.  A content line has a "|", and `part` is what follows it.    *)
Delimiter(table, region) ==
    [line |-> "delimiter", match |-> TRUE, table |-> table, region |-> region]
DelimiterNoMatch == [line |-> "delimiter", match |-> FALSE]
Content(part) == [line |-> "content", part |-> part]
Plain == [line |-> "plain"]

(* What follows the "|" of a content line: a whole document on one line, the  *)
(* first or the second half of a document written on two lines, or a boxed    *)
(* row ("|  ItemCount  |  100  ||").                                          *)
PartDocument(table_data) == [part |-> "document", doc |-> table_data]
PartOpen == [part |-> "open"]
PartClose(table_data) == [part |-> "close", doc |-> table_data]
PartRow == [part |-> "row"]

MetaDocs == { [ItemCount |-> 100],
              [ItemCount |-> 500, KeySchema |-> KeySchemaHash] }

MetaLineSet ==
    { Delimiter("orders", "us-east-1"), Delimiter("users", "us-east-1"),
      Delimiter("", ""), DelimiterNoMatch,
      Content(PartRow), Content(PartOpen), Content(PartClose([ItemCount |-> 100])),
      Plain }
        \cup { Content(PartDocument(d)) : d \in MetaDocs }

\* json.loads("\n".join(lines)) at line 61: the document, or BadJson for
\* JSONDecodeError
json_loads(lines) ==
    IF Len(lines) = 1 /\ lines[1].part = "document" THEN [Table |-> lines[1].doc]
    ELSE IF Len(lines) = 2 /\ lines[1].part = "open" /\ lines[2].part = "close"
         THEN [Table |-> lines[2].doc]
         ELSE BadJson

\* truth value of a text (or None)
Truthy(text) == text \notin {NoText, ""}

\* The delimiter lines among the lines read.
Delimiters == {i \in 1..Len(metaLines) : metaLines[i].line = "delimiter"}

\* The delimiter line that opened the block being read.
OpenBlock == CHOOSE i \in Delimiters : \A j \in Delimiters : j <= i

\* Line 35.
flush_guard(region, table, buffer) == Truthy(region) /\ Truthy(table) /\ buffer # <<>>

\* Lines 33-37: flush().
flush ==
    /\ IF flush_guard(current_region, current_table, json_buffer)
       THEN /\ MergeBlock(current_region, current_table, json_loads(json_buffer))
            /\ handed' = Append(handed, [region |-> current_region, table |-> current_table,
                                         lines |-> json_buffer, block |-> OpenBlock])
       ELSE UNCHANGED <<SampleMetaData, blocksLog, handed>>
    /\ json_buffer' = <<>>

\* Lines 40-55: one line of the file.
MetaLine ==
    /\ ~metaReturned
    /\ Len(metaLines) < MaxMetaLines
    /\ \E line \in MetaLineSet :
           /\ metaLines' = Append(metaLines, line)
           /\ IF line.line = "delimiter"
              THEN /\ flush
                   /\ inside_table' = TRUE
                   /\ IF line.match
                      THEN current_table' = line.table /\ current_region' = line.region
                      ELSE UNCHANGED <<current_table, current_region>>
              ELSE /\ json_buffer' = IF inside_table /\ line.line = "content"
                                     THEN Append(json_buffer, line.part)
                                     ELSE json_buffer
                   /\ UNCHANGED <<SampleMetaData, blocksLog, handed, inside_table,
                                  current_table, current_region>>
    /\ UNCHANGED <<metaReturned, Peaks, SampleCountData, SampleP99Data, pc>>

\* End of the file without line 57: what is buffered at the end is dropped.
MetaEnd_NoFinalFlush ==
    /\ ~metaReturned
    /\ metaReturned' = TRUE
    /\ UNCHANGED <<metaLines, current_region, current_table, json_buffer, inside_table, handed,
                   SampleMetaData, blocksLog, Peaks, SampleCountData, SampleP99Data, pc>>

\* Line 57: end of the file (a file that does not exist, lines 25-26, has no
\* line and nothing to flush).
MetaEnd ==
    /\ ~metaReturned
    /\ flush
    /\ metaReturned' = TRUE
    /\ UNCHANGED <<metaLines, current_region, current_table, inside_table,
                   Peaks, SampleCountData, SampleP99Data, pc>>

\* parse_table_metadata on one file, lines 28-31
InitMeta == InitPost /\ pc = "idle" /\ InitIdle

NextMeta ==
    \/ (MetaLine /\ UNCHANGED <<jsonVars, csvVars, detectVars, runVars, excelVars>>)
    \/ (MetaEnd /\ UNCHANGED <<jsonVars, csvVars, detectVars, runVars, excelVars>>)

SpecMeta == InitMeta /\ [][NextMeta]_vars

----------------------------------------------------------------------------
(* Format Detector: detect_file_format *)

\* pieces of text in the content of one file
MaxTokens == 3

(* The content of a file is a sequence of pieces of text: words, separators,  *)
(* white space and two structured documents, one of them with a comma in it.  *)
SPACE == " "
TAB == "<TAB>"
NEWLINE == "<LF>"
COMMA == ","
SEMICOLON == ";"
JsonNumber == "7"
JsonList == "[1,2]"
Tokens == {"a", COMMA, SEMICOLON, TAB, SPACE, NEWLINE, JsonNumber, JsonList}

Whitespace == {SPACE, TAB, NEWLINE}

Contents == UNION { [1..n -> Tokens] : n \in 0..MaxTokens }

\* str.strip(): the text without its leading and trailing white space
strip(text) ==
    LET solid == {i \in 1..Len(text) : text[i] \notin Whitespace}
    IN  IF solid = {} THEN <<>>
        ELSE SubSeq(text, CHOOSE i \in solid : \A j \in solid : i <= j,
                          CHOOSE i \in solid : \A j \in solid : j <= i)

\* text.split('\n')[0]
first_line(text) ==
    LET breaks == {i \in 1..Len(text) : text[i] = NEWLINE}
    IN  IF breaks = {} THEN text
        ELSE SubSeq(text, 1, (CHOOSE i \in breaks : \A j \in breaks : i <= j) - 1)

\* `sep in line`
In(sep, line) ==
    \E i \in 1..Len(line) : line[i] = sep \/ (sep = COMMA /\ line[i] = JsonList)

\* json.loads(content) at line 181 does not raise
json_loads_ok(content) == content \in {<<JsonNumber>>, <<JsonList>>}

\* Lines 172-203; a file that cannot be read raises at line 173 and the
\* handler of line 201 returns 'unknown'.
detect_file_format(is_readable, text) ==
    IF ~is_readable THEN "unknown"
    ELSE LET content == strip(text)
         IN  IF content = <<>> THEN "unknown"
             ELSE IF json_loads_ok(content) THEN "json"
             ELSE LET lines0 == first_line(content)
                  IN  IF In(COMMA, lines0) THEN "csv"
                      ELSE IF In(TAB, lines0) THEN "csv"
                      ELSE IF In(SEMICOLON, lines0) THEN "csv"
                      ELSE "unknown"

\* A file, readable or not, with some content.
InitDetect ==
    /\ readable \in BOOLEAN
    /\ file_text \in Contents
    /\ detected = "pending"

Detect ==
    /\ detected = "pending"
    /\ detected' = detect_file_format(readable, file_text)
    /\ UNCHANGED <<readable, file_text>>

InitDetectAlone ==
    InitPost /\ pc = "idle" /\ InitIdleJson /\ InitIdleCsv /\ InitIdleMeta /\ InitIdleRun
        /\ InitIdleExcel /\ InitDetect

NextDetect == Detect /\ UNCHANGED <<postVars, jsonVars, csvVars, metaVars, runVars, excelVars>>

SpecDetect == InitDetectAlone /\ [][NextDetect]_vars

----------------------------------------------------------------------------
(* Hierarchy Walker and the ingest run: traverse, then process_data *)

(* The folder given to `load` is a tree of nodes: a directory with its       *)
(* entries, a directory that cannot be listed (os.listdir raises), a file    *)
(* with its content, or nothing at all under that name.                      *)
Dir(entries) == [node |-> "dir", entries |-> entries]
Unreadable == [node |-> "unreadable"]
File(content) == [node |-> "file", content |-> content]
Missing == [node |-> "missing"]

\* the entries of a directory: `name` if there is such a node, none otherwise
Named(name, node) == IF node = Missing THEN <<>> ELSE (name :> node)

Child(node, name) ==
    IF node.node = "dir" /\ name \in DOMAIN node.entries THEN node.entries[name] ELSE Missing

\* the node at os.path.join(node, *path)
RECURSIVE At(_, _)
At(node, path) == IF path = <<>> THEN node ELSE At(Child(node, Head(path)), Tail(path))

isdir(node) == node.node \in {"dir", "unreadable"}
exists(node) == node.node # "missing"
listdir(node) == IF node.node = "dir" THEN DOMAIN node.entries ELSE {}
listdir_raises(node) == node.node # "dir"

\* Content of a leaf file, as json.load sees it: not a document, a list (no
\* .get), or an object with or without "Datapoints".
Undecodable == [json |-> "undecodable"]
ListDocument == [json |-> "list"]
Datapoints(dps) == [json |-> "object", Datapoints |-> dps]
NoDatapoints == [json |-> "object"]

\* an entry of Datapoints that is not an object (dp.get raises)
Scalar == [scalar |-> TRUE]

\* Content of a table_detailed.log: the blocks its flushes hand on, or bytes
\* that are no text (reading raises UnicodeDecodeError).
MetadataLog(blocks) == [log |-> "blocks", blocks |-> blocks]
UndecodableLog == [log |-> "undecodable"]

Block(region, table, full_json) == [region |-> region, table |-> table, doc |-> full_json]

CountLeafNodes ==
    { Missing, Dir(<<>>), Unreadable, File(Undecodable),
      Dir("a.log" :> File(Datapoints(<<[Timestamp |-> 1, SampleCount |-> 5]>>))),
      Dir("a.log" :> File(Undecodable)),
      Dir("a.log" :> File(ListDocument)),
      Dir("a.log" :> File(NoDatapoints)),
      Dir("a.log" :> File(Datapoints(<<[Timestamp |-> 1]>>))),
      Dir("a.log" :> File(Datapoints(<<[Timestamp |-> 1], [Timestamp |-> 2, SampleCount |-> 5],
                                         [Timestamp |-> 3, SampleCount |-> 9]>>))),
      Dir("a.log" :> File(Datapoints(<<[Timestamp |-> 1, SampleCount |-> 5], Scalar,
                                         [Timestamp |-> 2, SampleCount |-> 9]>>))),
      Dir(("a.log" :> File(Undecodable))
              @@ ("b.log" :> File(Datapoints(<<[Timestamp |-> 2, SampleCount |-> 9]>>)))) }

P99LeafNodes ==
    { Missing,
      Dir("a.log" :> File(Datapoints(<<[Timestamp |-> 1, ExtendedStatistics |-> [p99 |-> 9]]>>))),
      Dir("a.log" :> File(ListDocument)) }

MetadataNodes ==
    { Missing, Dir(<<>>), File(UndecodableLog),
      File(MetadataLog(<<Block("us-east-1", "orders", [Table |-> [ItemCount |-> 100]]),
                         Block("us-east-1", "orders", BadJson)>>)) }

OpDir(count, p99) == Dir(Named("sample_count", count) @@ Named("p99_latency", p99))

\* an operation directory outside DDB_OPERATIONS, with one Count datapoint
UpdateItemNodes ==
    { Missing,
      OpDir(Dir("a.log" :> File(Datapoints(<<[Timestamp |-> 3, SampleCount |-> 9]>>))), Missing) }

\* One sample, one region, one table: what its leaves and its metadata log are.
LeafTree(meta, count, p99, update_item) ==
    Dir("dynamo_metrics_logs_1" :>
        Dir(Named("table_detailed.log", meta)
            @@ ("us-east-1" :>
                   Dir("orders" :> Dir(("Query" :> OpDir(count, p99))
                                           @@ Named("UpdateItem", update_item))))))

TableWithCount(t, v) ==
    Dir("Query" :> OpDir(Dir("a.log" :> File(Datapoints(<<[Timestamp |-> t, SampleCount |-> v]>>))),
                         Missing))

RegionNodes ==
    { Missing, File(Undecodable), Dir(<<>>), Unreadable,
      Dir("orders" :> TableWithCount(1, 5)),
      Dir(("orders" :> TableWithCount(1, 5)) @@ ("users" :> Dir(<<>>))),
      Dir(("orders" :> TableWithCount(1, 5)) @@ ("README" :> File(Undecodable))) }

SecondSampleNodes ==
    { Missing, Unreadable,
      Dir("eu-west-1" :> Dir("users" :> TableWithCount(2, 9))),
      Dir(("us-east-1" :> Dir("users" :> TableWithCount(2, 9))) @@ ("eu-west-1" :> Dir(<<>>))) }

\* Two samples at most, next to a directory and a file that are no samples.
WalkTree(region, second) ==
    Dir(("dynamo_metrics_logs_1" :> Dir(Named("us-east-1", region)))
            @@ Named("dynamo_metrics_logs_2", second)
            @@ ("archive" :> Dir("ap-south-1" :> Dir("legacy" :> TableWithCount(3, 9))))
            @@ ("dynamo_metrics_logs_notes" :> File(Undecodable)))

\* a folder with no sample directory in it
NoSamplesTree == Dir("archive" :> Dir("ap-south-1" :> Dir("legacy" :> TableWithCount(3, 9))))

\* Two samples with a metadata log each; the first has two tables.
TwoLogTrees ==
    { Dir(("dynamo_metrics_logs_1" :>
               Dir(("table_detailed.log" :>
                        File(MetadataLog(<<Block("us-east-1", "orders", [Table |-> [ItemCount |-> 500]]),
                                           Block("us-east-1", "users", [Table |-> [ItemCount |-> 100]])>>)))
                   @@ ("us-east-1" :> Dir(("orders" :> TableWithCount(1, 5))
                                              @@ ("users" :> TableWithCount(2, 9))))))
          @@ ("dynamo_metrics_logs_2" :>
                  Dir(Named("table_detailed.log", meta)
                      @@ ("us-east-1" :> Dir("orders" :> TableWithCount(3, 9)))))) :
          meta \in MetadataNodes }

RunTrees ==
    {NoSamplesTree} \cup TwoLogTrees
        \cup { LeafTree(meta, count, p99, update_item) :
                   meta \in MetadataNodes, count \in CountLeafNodes,
                   p99 \in P99LeafNodes, update_item \in UpdateItemNodes }
        \cup { WalkTree(region, second) : region \in RegionNodes, second \in SecondSampleNodes }

\* --table: None, or the one table asked for
RequestTables == {NoText, "orders", "users", "invoices"}

\* name.startswith("dynamo_metrics_logs_")
startswith_prefix(name) ==
    name \in {"dynamo_metrics_logs_1", "dynamo_metrics_logs_2", "dynamo_metrics_logs_notes"}

\* Line 140 without the prefix: every directory of the folder is a sample.
is_sample_AnyDirectory(root, name) == isdir(Child(root, name))

\* Line 140.
is_sample(root, name) == startswith_prefix(name) /\ isdir(Child(root, name))

\* Lines 138-141.
traverse_SAMPLES(root) == {name \in listdir(root) : is_sample(root, name)}

\* The region directories of one sample, lines 145-149.
sample_regions(root, sample) ==
    {region \in listdir(Child(root, sample)) : isdir(At(root, <<sample, region>>))}

\* Lines 143-149.
traverse_REGIONS(root) == UNION {sample_regions(root, sample) : sample \in traverse_SAMPLES(root)}

\* Lines 153-157.
keeps_table(request, table) == IF Truthy(request) THEN table = request ELSE TRUE

\* Lines 150-157.
traverse_TABLES(root, request) ==
    UNION { UNION { {table \in listdir(At(root, <<sample, region>>)) :
                         /\ isdir(At(root, <<sample, region, table>>))
                         /\ keeps_table(request, table)} :
                    region \in sample_regions(root, sample) } :
            sample \in traverse_SAMPLES(root) }

\* os.listdir raises at line 145 or 150 (nothing in traverse catches it).
traverse_raises(root) ==
    \E sample \in traverse_SAMPLES(root) :
        \/ listdir_raises(Child(root, sample))
        \/ \E region \in sample_regions(root, sample) :
               listdir_raises(At(root, <<sample, region>>))

\* Lines 134-157 (main, lines 378-380, goes on with process_data).
Traverse ==
    /\ pc = "traverse"
    /\ IF traverse_raises(BASE_DIR)
       THEN /\ pc' = "aborted"
            /\ raised' = "traverse"
            /\ UNCHANGED <<SAMPLES, REGIONS, TABLES>>
       ELSE /\ pc' = "metadata"
            /\ SAMPLES' = traverse_SAMPLES(BASE_DIR)
            /\ REGIONS' = traverse_REGIONS(BASE_DIR)
            /\ TABLES' = traverse_TABLES(BASE_DIR, request_table)
            /\ UNCHANGED raised
    /\ UNCHANGED <<BASE_DIR, request_table, visited, pending,
                   SampleMetaData, Peaks, SampleCountData, SampleP99Data, blocksLog>>

\* Lines 39-40 without lines 25-26: a log that does not exist is opened.
metadata_raises_NoExistsTest(node) == ~(node.node = "file" /\ node.content.log = "blocks")

\* Lines 25-26 and 39-40: the log cannot be opened or read as text.
metadata_raises(node) ==
    exists(node) /\ ~(node.node = "file" /\ node.content.log = "blocks")

\* Line 171 inside the loops of lines 174-177: the log of a sample is opened
\* again whenever one of its metric directories is about to be visited.
OpenMetadataLog_PerQuadruple ==
    /\ pc = "metadata"
    /\ pending = <<>>
    /\ \E sample \in SAMPLES :
           /\ LET node == At(BASE_DIR, <<sample, "table_detailed.log">>) IN
              IF metadata_raises(node)
              THEN pc' = "aborted" /\ raised' = "parse_table_metadata"
                   /\ UNCHANGED <<visited, pending>>
              ELSE /\ visited' = visited \cup {<<sample>>}
                   /\ pending' = IF exists(node) THEN node.content.blocks ELSE <<>>
                   /\ UNCHANGED <<pc, raised>>
    /\ UNCHANGED <<BASE_DIR, request_table, SAMPLES, REGIONS, TABLES,
                   SampleMetaData, Peaks, SampleCountData, SampleP99Data, blocksLog>>

\* Line 171 for one sample: the log is opened and its blocks are to be merged.
OpenMetadataLog ==
    /\ pc = "metadata"
    /\ pending = <<>>
    /\ \E sample \in SAMPLES :
           /\ <<sample>> \notin visited
           /\ LET node == At(BASE_DIR, <<sample, "table_detailed.log">>) IN
              IF metadata_raises(node)
              THEN pc' = "aborted" /\ raised' = "parse_table_metadata"
                   /\ UNCHANGED <<visited, pending>>
              ELSE /\ visited' = visited \cup {<<sample>>}
                   /\ pending' = IF exists(node) THEN node.content.blocks ELSE <<>>
                   /\ UNCHANGED <<pc, raised>>
    /\ UNCHANGED <<BASE_DIR, request_table, SAMPLES, REGIONS, TABLES,
                   SampleMetaData, Peaks, SampleCountData, SampleP99Data, blocksLog>>

\* One block of the open log flushed (lines 36, 59-63).
MergePending ==
    /\ pc = "metadata"
    /\ pending # <<>>
    /\ MergeBlock(Head(pending).region, Head(pending).table, Head(pending).doc)
    /\ pending' = Tail(pending)
    /\ UNCHANGED <<BASE_DIR, request_table, SAMPLES, REGIONS, TABLES, visited, raised,
                   Peaks, SampleCountData, SampleP99Data, pc>>

\* The loop of line 170 is over.
RunEndMetadata ==
    /\ pending = <<>>
    /\ \A sample \in SAMPLES : <<sample>> \in visited
    /\ EndMetadata
    /\ visited' = {}
    /\ UNCHANGED <<BASE_DIR, request_table, SAMPLES, REGIONS, TABLES, pending, raised>>

\* The (operation, table, sample, region) of lines 174-177 whose metric
\* directory passes the test of line 179.
LeafDirs(metric_dir) ==
    {q \in DDB_OPERATIONS \X TABLES \X SAMPLES \X REGIONS :
         isdir(At(BASE_DIR, <<q[3], q[4], q[2], q[1], metric_dir>>))}

\* Lines 184-186: the entries of Datapoints up to the first one that is no
\* object; none when json.load or data.get raises.
file_records(node) ==
    IF node.node # "file" \/ node.content.json # "object" THEN <<>>
    ELSE LET dps == Get(node.content, "Datapoints", <<>>)
             bad == {i \in 1..Len(dps) : dps[i] = Scalar}
         IN  IF bad = {} THEN dps
             ELSE SubSeq(dps, 1, (CHOOSE i \in bad : \A j \in bad : i <= j) - 1)

\* The records of the files of a directory, the files in the given order.
RECURSIVE dir_records(_, _, _)
dir_records(node, order, q) ==
    IF order = <<>> THEN <<>>
    ELSE LET records == file_records(Child(node, Head(order)))
         IN  [i \in 1..Len(records) |->
                  [operation |-> q[1], table |-> q[2], sample |-> q[3], region |-> q[4],
                   dp |-> records[i]]]
             \o dir_records(node, Tail(order), q)

\* os.listdir gives the names in any order.
Orders(names) ==
    {order \in [1..Cardinality(names) -> names] :
         \A i, j \in 1..Cardinality(names) : i # j => order[i] # order[j]}

\* Lines 178-185, 207-214: one metric directory is listed and its files opened.
OpenLeafDir(metric_dir) ==
    /\ pending = <<>>
    /\ \E q \in LeafDirs(metric_dir) \ visited :
           LET node == At(BASE_DIR, <<q[3], q[4], q[2], q[1], metric_dir>>) IN
           IF listdir_raises(node)
           THEN pc' = "aborted" /\ raised' = "process_data" /\ UNCHANGED <<visited, pending>>
           ELSE /\ visited' = visited \cup {q}
                /\ \E order \in Orders(listdir(node)) : pending' = dir_records(node, order, q)
                /\ UNCHANGED <<pc, raised>>
    /\ UNCHANGED <<BASE_DIR, request_table, SAMPLES, REGIONS, TABLES,
                   SampleMetaData, Peaks, SampleCountData, SampleP99Data, blocksLog>>

OpenCountDir == pc = "count" /\ OpenLeafDir("sample_count")

OpenP99Dir == pc = "p99" /\ OpenLeafDir("p99_latency")

\* Lines 186-198 for the next record of the open files.
ReadCountPending ==
    /\ pc = "count"
    /\ pending # <<>>
    /\ LET w == Head(pending) IN CountRecord(w.operation, w.table, w.sample, w.region, w.dp)
    /\ pending' = Tail(pending)
    /\ UNCHANGED <<BASE_DIR, request_table, SAMPLES, REGIONS, TABLES, visited, raised,
                   SampleP99Data, pc, blocksLog>>

\* Lines 215-227 for the next record of the open files.
ReadP99Pending ==
    /\ pc = "p99"
    /\ pending # <<>>
    /\ LET w == Head(pending) IN P99Record(w.operation, w.table, w.sample, w.region, w.dp)
    /\ pending' = Tail(pending)
    /\ UNCHANGED <<BASE_DIR, request_table, SAMPLES, REGIONS, TABLES, visited, raised,
                   SampleCountData, pc, blocksLog>>

\* The loops of line 174 are over.
RunEndCount ==
    /\ pending = <<>>
    /\ LeafDirs("sample_count") \subseteq visited
    /\ EndCount
    /\ visited' = {}
    /\ UNCHANGED <<BASE_DIR, request_table, SAMPLES, REGIONS, TABLES, pending, raised>>

\* The loops of line 203 are over and lines 231-243 write the four artifacts.
RunSerialize ==
    /\ pending = <<>>
    /\ LeafDirs("p99_latency") \subseteq visited
    /\ Serialize
    /\ UNCHANGED <<BASE_DIR, request_table, SAMPLES, REGIONS, TABLES, visited, pending, raised>>

\* `load` of a folder: lines 15-18, 377-380.
InitRun ==
    /\ BASE_DIR \in RunTrees
    /\ request_table \in RequestTables
    /\ SAMPLES = {} /\ REGIONS = {} /\ TABLES = {}
    /\ visited = {} /\ pending = <<>> /\ raised = "none"

InitRunAlone ==
    InitPost /\ pc = "traverse" /\ InitIdleJson /\ InitIdleCsv /\ InitIdleMeta /\ InitIdleDetect
        /\ InitIdleExcel /\ InitRun

NextRun ==
    \/ (Traverse /\ UNCHANGED <<jsonVars, csvVars, metaVars, detectVars, excelVars>>)
    \/ (OpenMetadataLog /\ UNCHANGED <<jsonVars, csvVars, metaVars, detectVars, excelVars>>)
    \/ (MergePending /\ UNCHANGED <<jsonVars, csvVars, metaVars, detectVars, excelVars>>)
    \/ (RunEndMetadata /\ UNCHANGED <<jsonVars, csvVars, metaVars, detectVars, excelVars>>)
    \/ (OpenCountDir /\ UNCHANGED <<jsonVars, csvVars, metaVars, detectVars, excelVars>>)
    \/ (ReadCountPending /\ UNCHANGED <<jsonVars, csvVars, metaVars, detectVars, excelVars>>)
    \/ (RunEndCount /\ UNCHANGED <<jsonVars, csvVars, metaVars, detectVars, excelVars>>)
    \/ (OpenP99Dir /\ UNCHANGED <<jsonVars, csvVars, metaVars, detectVars, excelVars>>)
    \/ (ReadP99Pending /\ UNCHANGED <<jsonVars, csvVars, metaVars, detectVars, excelVars>>)
    \/ (RunSerialize /\ UNCHANGED <<jsonVars, csvVars, metaVars, detectVars, excelVars>>)

SpecRun == InitRunAlone /\ [][NextRun]_vars

\* The run goes on as long as it has a step to take: it is one sequential
\* process.
SpecRunFair == InitRunAlone /\ [][NextRun]_vars /\ WF_vars(NextRun)

----------------------------------------------------------------------------
(* Excel processor: main of process_dynamodb_logs.py                       *)
(*                                                                         *)
(* A path is "missing", a "file" or a "dir"; the destination can also be   *)
(* "uncreatable": missing, and os.makedirs raises.  region_dirs has the    *)
(* directories of the source: whether find_all_regions sees tables with    *)
(* operation directories in it, whether it has individual log files, and   *)
(* how create_excel_workbook ends for it.                                  *)

\* the order sorted() gives the names
RegionNames == <<"ap-south-1", "eu-west-1", "us-east-1">>

\* create_excel_workbook returns, or raises at wb.create_sheet (a table name
\* that is no sheet title) before any file is read, or at wb.save after.
WorkbookOutcomes == {"saved", "raises_create_sheet", "raises_save"}

RegionDirKinds ==
    {[structure |-> FALSE, files |-> FALSE, workbook |-> "saved"],
     [structure |-> TRUE, files |-> FALSE, workbook |-> "saved"]}
    \cup {[structure |-> TRUE, files |-> TRUE, workbook |-> w] : w \in WorkbookOutcomes}

RegionDirSets ==
    UNION {[names -> RegionDirKinds] : names \in SUBSET {RegionNames[i] : i \in 1..Len(RegionNames)}}

\* Lines 437-463.
find_all_regions(dirs) == SelectSeq(RegionNames, LAMBDA r : r \in DOMAIN dirs /\ dirs[r].structure)

\* Lines 1189-1195.
source_rejected(kind) == kind # "dir"

\* Lines 1198-1204: what the destination is after os.makedirs.
makedirs(kind) == IF kind = "missing" THEN "dir" ELSE kind

\* Lines 1206-1208 without the test: every destination is taken.
destination_rejected_Never(kind) == FALSE

\* Lines 1202-1208.
destination_rejected(kind) == kind # "dir"

\* sys.exit(1)
Exit1 == pc' = "exited" /\ exit_status' = 1

\* Lines 1188-1195.
ValidateSource ==
    /\ pc = "validate"
    /\ IF source_rejected(log_directory)
       THEN Exit1
       ELSE pc' = "destination" /\ UNCHANGED exit_status
    /\ UNCHANGED <<log_directory, destination_directory, region_dirs, made_dirs, log_file,
                   scanned, regions, region_index, leaf_read, output_files, uncaught>>

\* Lines 1197-1208.
ValidateDestination ==
    /\ pc = "destination"
    /\ destination_directory' = makedirs(destination_directory)
    /\ made_dirs' = (destination_directory = "missing")
    /\ IF destination_rejected(destination_directory')
       THEN Exit1
       ELSE pc' = "logging" /\ UNCHANGED exit_status
    /\ UNCHANGED <<log_directory, region_dirs, log_file, scanned, regions, region_index,
                   leaf_read, output_files, uncaught>>

\* Lines 1210-1237: logging.FileHandler creates the log file.
SetUpLogging ==
    /\ pc = "logging"
    /\ log_file' = TRUE
    /\ pc' = "scan"
    /\ UNCHANGED <<log_directory, destination_directory, region_dirs, made_dirs, scanned,
                   regions, region_index, leaf_read, output_files, exit_status, uncaught>>

\* Lines 1239-1253.
FindAllRegions ==
    /\ pc = "scan"
    /\ scanned' = TRUE
    /\ regions' = find_all_regions(region_dirs)
    /\ IF regions' = <<>>
       THEN Exit1
       ELSE pc' = "regions" /\ UNCHANGED exit_status
    /\ UNCHANGED <<log_directory, destination_directory, region_dirs, made_dirs, log_file,
                   region_index, leaf_read, output_files, uncaught>>

\* the region of the next iteration of the loop of line 1255
region_name_now == regions[region_index + 1]

\* Lines 1262-1269: no individual log files, `continue`.
SkipRegion ==
    /\ pc = "regions" /\ region_index < Len(regions)
    /\ ~region_dirs[region_name_now].files
    /\ region_index' = region_index + 1
    /\ UNCHANGED <<pc, log_directory, destination_directory, region_dirs, made_dirs, log_file,
                   scanned, regions, leaf_read, output_files, exit_status, uncaught>>

\* Lines 1262-1294: the workbook of the region is written.
CreateWorkbook ==
    /\ pc = "regions" /\ region_index < Len(regions)
    /\ region_dirs[region_name_now].files
    /\ region_dirs[region_name_now].workbook = "saved"
    /\ leaf_read' = leaf_read \cup {region_name_now}
    /\ output_files' = Append(output_files, region_name_now)
    /\ region_index' = region_index + 1
    /\ UNCHANGED <<pc, log_directory, destination_directory, region_dirs, made_dirs, log_file,
                   scanned, regions, exit_status, uncaught>>

\* Line 1290: create_excel_workbook raises (line 899 or 1136); nothing in the
\* loop or around it catches, the interpreter ends the run with a traceback.
WorkbookRaises ==
    /\ pc = "regions" /\ region_index < Len(regions)
    /\ region_dirs[region_name_now].files
    /\ region_dirs[region_name_now].workbook # "saved"
    /\ leaf_read' = IF region_dirs[region_name_now].workbook = "raises_save"
                    THEN leaf_read \cup {region_name_now} ELSE leaf_read
    /\ uncaught' = TRUE
    /\ Exit1
    /\ UNCHANGED <<log_directory, destination_directory, region_dirs, made_dirs, log_file,
                   scanned, regions, region_index, output_files>>

\* Lines 1296-1306: the loop is over, main returns.
Finish ==
    /\ pc = "regions" /\ region_index = Len(regions)
    /\ pc' = "exited" /\ exit_status' = 0
    /\ UNCHANGED <<log_directory, destination_directory, region_dirs, made_dirs, log_file,
                   scanned, regions, region_index, leaf_read, output_files, uncaught>>

\* Lines 1181-1186: the arguments, and what is on disk at their paths.
InitMain ==
    /\ log_directory \in {"missing", "file", "dir"}
    /\ destination_directory \in {"missing", "uncreatable", "file", "dir"}
    /\ region_dirs \in RegionDirSets
    /\ InitMainProgress

InitMainAlone ==
    InitPost /\ pc = "validate" /\ InitIdleJson /\ InitIdleCsv /\ InitIdleMeta /\ InitIdleDetect
        /\ InitIdleRun /\ InitIdleDetail /\ InitIdleTools /\ InitMain

NextMain ==
    \/ (ValidateSource /\ UNCHANGED <<dataVars, jsonVars, csvVars, metaVars, detectVars, runVars, detailVars, toolVars>>)
    \/ (ValidateDestination /\ UNCHANGED <<dataVars, jsonVars, csvVars, metaVars, detectVars, runVars, detailVars, toolVars>>)
    \/ (SetUpLogging /\ UNCHANGED <<dataVars, jsonVars, csvVars, metaVars, detectVars, runVars, detailVars, toolVars>>)
    \/ (FindAllRegions /\ UNCHANGED <<dataVars, jsonVars, csvVars, metaVars, detectVars, runVars, detailVars, toolVars>>)
    \/ (SkipRegion /\ UNCHANGED <<dataVars, jsonVars, csvVars, metaVars, detectVars, runVars, detailVars, toolVars>>)
    \/ (CreateWorkbook /\ UNCHANGED <<dataVars, jsonVars, csvVars, metaVars, detectVars, runVars, detailVars, toolVars>>)
    \/ (WorkbookRaises /\ UNCHANGED <<dataVars, jsonVars, csvVars, metaVars, detectVars, runVars, detailVars, toolVars>>)
    \/ (Finish /\ UNCHANGED <<dataVars, jsonVars, csvVars, metaVars, detectVars, runVars, detailVars, toolVars>>)

SpecMain == InitMainAlone /\ [][NextMain]_vars

----------------------------------------------------------------------------
(* Excel processor: parse_table_detailed_log                               *)
(*                                                                         *)
(* A line of table_detailed.log is a table header with or without a region *)
(* in it, a row `Region: <region> | ... <key> | <value>` or anything else.  *)
(* 'N/A' is NotAvailable.                                                  *)

NotAvailable == -2

Header(table, region) == [line |-> "header", table |-> table, region |-> region]
HeaderNoRegion(table) == [line |-> "header", table |-> table, region |-> NoText]
Field(region, key, value) == [line |-> "field", region |-> region, key |-> key, value |-> value]
OtherLine == [line |-> "other"]

\* lines of one table_detailed.log
MaxDetailLines == 4

DetailTables == {"orders", "users"}
DetailRegions == {"us-east-1", "eu-west-1"}

DetailLineSet ==
    {Header(table, region) : table \in DetailTables, region \in DetailRegions}
    \cup {HeaderNoRegion(table) : table \in DetailTables}
    \cup {Field(region, "ItemCount", 5) : region \in DetailRegions}
    \cup {Field(region, "TableSizeBytes", 9) : region \in DetailRegions}
    \cup {OtherLine}

\* Lines 612-622, 632-642 (the fields the rows of the model can set).
new_table_info(table) ==
    [TableName |-> table, ItemCount |-> NotAvailable, TableSizeBytes |-> NotAvailable]

\* Lines 607-608, 696-697: `if current_table and table_info`.
save_table(details, table, info) ==
    IF Truthy(table) /\ DOMAIN info # {} THEN Put(details, table, info) ELSE details

\* Lines 591-693 for one line.
DetailLine ==
    /\ ~detailReturned
    /\ Len(detailLines) < MaxDetailLines
    /\ \E l \in DetailLineSet :
        /\ detailLines' = Append(detailLines, l)
        /\ IF l.line = "header"
           THEN IF l.table # NoText /\ l.region # NoText
                THEN IF l.region = region_name
                     THEN /\ table_details' = save_table(table_details, detail_table, table_info)
                          /\ detail_table' = l.table
                          /\ table_info' = new_table_info(l.table)
                     ELSE /\ detail_table' = NoText
                          /\ table_info' = EmptyDict
                          /\ UNCHANGED table_details
                ELSE IF l.table # NoText
                     THEN /\ detail_table' = l.table
                          /\ table_info' = new_table_info(l.table)
                          /\ UNCHANGED table_details
                     ELSE UNCHANGED <<detail_table, table_info, table_details>>
           ELSE IF l.line = "field" /\ Truthy(detail_table) /\ l.region = region_name
                THEN /\ table_info' = Put(table_info, l.key, l.value)
                     /\ UNCHANGED <<detail_table, table_details>>
                ELSE UNCHANGED <<detail_table, table_info, table_details>>
    /\ UNCHANGED <<region_name, detailReturned>>

\* Lines 695-703.
DetailEnd ==
    /\ ~detailReturned
    /\ table_details' = save_table(table_details, detail_table, table_info)
    /\ detailReturned' = TRUE
    /\ UNCHANGED <<detailLines, region_name, detail_table, table_info>>

InitDetail == region_name \in DetailRegions /\ InitDetailProgress

InitDetailAlone ==
    InitPost /\ pc = "idle" /\ InitIdleJson /\ InitIdleCsv /\ InitIdleMeta /\ InitIdleDetect
        /\ InitIdleRun /\ InitIdleMain /\ InitIdleTools /\ InitDetail

NextDetail ==
    \/ (DetailLine /\ UNCHANGED <<postVars, jsonVars, csvVars, metaVars, detectVars, runVars, mainVars, toolVars>>)
    \/ (DetailEnd /\ UNCHANGED <<postVars, jsonVars, csvVars, metaVars, detectVars, runVars, mainVars, toolVars>>)

SpecDetail == InitDetailAlone /\ [][NextDetail]_vars

----------------------------------------------------------------------------
(* Excel processor: find_individual_log_files_for_region                   *)
(*                                                                         *)
(* A name is a sequence of pieces of text, "a.log" is <<"a", ".log">>, so   *)
(* that startswith, endswith and `in` are tests on the pieces.  What is    *)
(* under the region directory is a set of entries, each with its path from *)
(* the region directory and whether it is a file or a directory.           *)

\* entries under the region directory
MaxFiles == 2

OrdersTable == <<"orders">>
DotTable == <<".", "orders">>
QueryOperation == <<"Query">>
SampleCountDir == <<"sample_count">>
P99LatencyDir == <<"p99_latency">>
ArchiveDir == <<"archive">>

\* minutes after the first of the timestamps that file names carry
StampMinutes ==
    ("20250805042954" :> 0) @@ ("20250805044954" :> 20) @@ ("20250806042954" :> 1440)

LogFileNames ==
    {<<"a", ".log">>, <<".", "a", ".log">>, <<"a", ".txt">>,
     <<"Query_", "3hr", ".log">>, <<"Query_", "7day", ".log">>,
     <<"20250805042954", "to", "20250805044954", ".log">>,
     <<"20250805042954", "to", "20250806042954", ".log">>}

FileAt(path) == [path |-> path, kind |-> "file"]
DirAt(path) == [path |-> path, kind |-> "dir"]

RegionEntries ==
    {FileAt(<<OrdersTable, QueryOperation, metric, name>>) :
         metric \in {SampleCountDir, P99LatencyDir, ArchiveDir}, name \in LogFileNames}
    \cup {FileAt(<<DotTable, QueryOperation, SampleCountDir, <<"a", ".log">>>>),
          DirAt(<<OrdersTable, QueryOperation, SampleCountDir, <<"d", ".log">>>>),
          FileAt(<<OrdersTable, <<"Query_", "3hr", ".log">>>>),
          FileAt(<<OrdersTable, <<"a", ".log">>>>),
          FileAt(<<OrdersTable, QueryOperation, <<"a", ".log">>>>),
          FileAt(<<OrdersTable, QueryOperation, SampleCountDir, <<"sub">>, <<"a", ".log">>>>)}

\* the sets of at most n entries
RECURSIVE EntrySets(_)
EntrySets(n) ==
    IF n = 0 THEN {{}}
    ELSE EntrySets(n - 1) \cup {entries \cup {e} : entries \in EntrySets(n - 1), e \in RegionEntries}

\* log_directory split at os.sep: '', 'logs', '/data/logs'
LogDirectories == {<<>>, <<<<"logs">>>>, <<<<>>, <<"data">>, <<"logs">>>>}

startswith(name, prefix) ==
    Len(name) >= Len(prefix) /\ SubSeq(name, 1, Len(prefix)) = prefix

endswith(name, suffix) ==
    Len(name) >= Len(suffix) /\ SubSeq(name, Len(name) - Len(suffix) + 1, Len(name)) = suffix

\* glob: `*` matches no name that starts with a dot
star(name) == ~startswith(name, <<".">>)

\* Lines 490-493: glob.glob(region_path/*/*/*/*.log)
glob(entries) ==
    {e \in entries :
        /\ Len(e.path) = 4
        /\ \A i \in 1..4 : star(e.path[i])
        /\ endswith(e.path[4], <<".log">>)}

\* Lines 518-544.
period_type(filename) ==
    IF \E i \in 1..Len(filename) : filename[i] = "to"
    THEN LET first == CHOOSE i \in 1..Len(filename) :
                          filename[i] = "to" /\ \A j \in 1..(i - 1) : filename[j] # "to"
             start == SubSeq(filename, 1, first - 1)
             rest == SubSeq(filename, first + 1, Len(filename))
             end_part == SelectSeq(rest, LAMBDA piece : piece # ".log")
         IN  IF /\ Len(start) = 1 /\ start[1] \in DOMAIN StampMinutes
                /\ Len(end_part) = 1 /\ end_part[1] \in DOMAIN StampMinutes
             THEN IF (StampMinutes[end_part[1]] - StampMinutes[start[1]]) * 60 <= 4 * 3600
                  THEN "3hr" ELSE "7day"
             ELSE "3hr"
    ELSE "3hr"

\* Lines 495-516: the file information of a path the glob gave, none if the
\* path is skipped.
file_infos(directory, region, e) ==
    LET path_parts == directory \o <<region>> \o e.path
        n == Len(path_parts)
    IN  IF n < 6 THEN {}
        ELSE IF path_parts[n - 1] \notin {P99LatencyDir, SampleCountDir} THEN {}
        ELSE IF endswith(path_parts[n], <<"3hr", ".log">>)
                    \/ endswith(path_parts[n], <<"7day", ".log">>) THEN {}
        ELSE {[table_name |-> path_parts[n - 3],
               file_path |-> path_parts,
               operation |-> path_parts[n - 2],
               metric_type |-> path_parts[n - 1],
               period_type |-> period_type(path_parts[n]),
               region |-> region]}

\* Lines 485-555: table -> the file information appended for it (glob gives
\* the paths in the order of the file system; the lists are sets here).
find_individual_log_files_for_region(directory, region, entries) ==
    LET infos == UNION {file_infos(directory, region, e) : e \in glob(entries)}
        tables == {info.table_name : info \in infos}
    IN  [table \in tables |->
             {[file_path |-> info.file_path, operation |-> info.operation,
               metric_type |-> info.metric_type, period_type |-> info.period_type,
               region |-> info.region] : info \in {i \in infos : i.table_name = table}}]

FindRegion == <<"us-east-1">>

FindLogFiles ==
    /\ ~findReturned
    /\ table_files' = find_individual_log_files_for_region(find_directory, FindRegion,
                                                           region_entries)
    /\ findReturned' = TRUE
    /\ UNCHANGED <<find_directory, region_entries>>

InitFind ==
    /\ find_directory \in LogDirectories
    /\ region_entries \in EntrySets(MaxFiles)
    /\ table_files = EmptyDict
    /\ findReturned = FALSE

InitFindAlone ==
    InitPost /\ pc = "idle" /\ InitIdleJson /\ InitIdleCsv /\ InitIdleMeta /\ InitIdleDetect
        /\ InitIdleRun /\ InitIdleMain /\ InitIdleDetail /\ InitIdleRegions /\ InitIdleSheet
        /\ InitFind

NextFind ==
    FindLogFiles /\ UNCHANGED <<postVars, jsonVars, csvVars, metaVars, detectVars, runVars,
                                mainVars, detailVars, regionsVars, sheetVars>>

SpecFind == InitFindAlone /\ [][NextFind]_vars

----------------------------------------------------------------------------
(* Excel processor: find_all_regions *)

\* The elements of a sequence.
Range(seq) == {seq[i] : i \in 1..Len(seq)}

\* How many entries a region directory has at most.
MaxTableDirs == 4

\* What os.listdir gives for the log directory: the entries with their names,
\* in the order of the file system. An entry of a region directory is a
\* table directory with an operation directory in it ("ops"), a directory
\* with none ("empty"), a directory that cannot be listed ("unreadable") or
\* a file.
ListedNames == {<<"us-east-1">>, <<"eu-west-1">>, <<".", "cache">>}

EmptyRun(n) == [i \in 1..n |-> "empty"]

TableListings ==
    { EmptyRun(n) : n \in 0..MaxTableDirs }
        \cup { EmptyRun(p[1]) \o <<"ops">> \o EmptyRun(p[2]) :
                   p \in {q \in (0..MaxTableDirs) \X (0..MaxTableDirs) :
                              q[1] + q[2] < MaxTableDirs} }
        \cup { <<"file", "ops">>, <<"file", "file", "file", "ops">>,
               <<"unreadable", "ops">>, <<"ops", "unreadable">> }

ListedItems(name) ==
    IF name = <<".", "cache">>
    THEN { [name |-> name, kind |-> "dir", tables |-> <<"ops">>],
           [name |-> name, kind |-> "file", tables |-> <<>>] }
    ELSE { [name |-> name, kind |-> "dir", tables |-> t] : t \in TableListings }
             \cup { [name |-> name, kind |-> k, tables |-> <<>>] : k \in {"file", "unreadable"} }

\* The listings of the entries with the names left, each name once.
RECURSIVE Listings(_)
Listings(names) ==
    {<<>>} \cup UNION { UNION { { <<item>> \o rest : rest \in Listings(names \ {name}) } :
                                 item \in ListedItems(name) } :
                        name \in names }

\* os.path.isdir
is_table_dir(entry) == entry \in {"ops", "empty", "unreadable"}

\* Lines 446-455: the loop over subdirs[:3] ends at the first directory with an
\* operation directory; listing one that cannot be listed raises OSError
\* (line 456) and the region is passed over.
has_valid_structure(item) ==
    /\ item.kind = "dir"
    /\ LET subdirs == SelectSeq(item.tables, is_table_dir)
           first_few == SubSeq(subdirs, 1, IF Len(subdirs) < 3 THEN Len(subdirs) ELSE 3)
       IN  \E i \in 1..Len(first_few) :
               first_few[i] = "ops" /\ \A j \in 1..(i - 1) : first_few[j] = "empty"

\* sorted(): "eu-west-1" comes before "us-east-1".
sorted_regions(names) ==
    SelectSeq(<<<<".", "cache">>, <<"eu-west-1">>, <<"us-east-1">>>>, LAMBDA n : n \in names)

\* Lines 434-463.
regions_in_listing(listing) ==
    sorted_regions({ listing[i].name : i \in
        {k \in 1..Len(listing) :
             /\ listing[k].kind \in {"dir", "unreadable"}
             /\ ~startswith(listing[k].name, <<".">>)
             /\ has_valid_structure(listing[k])} })

\* find_all_regions returns.
FindRegions ==
    /\ ~regionsReturned
    /\ regions_found' = regions_in_listing(log_listing)
    /\ regionsReturned' = TRUE
    /\ UNCHANGED log_listing

InitRegions ==
    /\ log_listing \in Listings(ListedNames)
    /\ regions_found = <<>>
    /\ regionsReturned = FALSE

InitRegionsAlone ==
    InitPost /\ pc = "idle" /\ InitIdleJson /\ InitIdleCsv /\ InitIdleMeta /\ InitIdleDetect
        /\ InitIdleRun /\ InitIdleMain /\ InitIdleDetail /\ InitIdleFind /\ InitIdleSheet
        /\ InitRegions

NextRegions ==
    FindRegions /\ UNCHANGED <<postVars, jsonVars, csvVars, metaVars, detectVars, runVars,
                               mainVars, detailVars, findVars, sheetVars>>

SpecRegions == InitRegionsAlone /\ [][NextRegions]_vars

----------------------------------------------------------------------------
(* Excel processor: the worksheet of one table in create_excel_workbook *)

\* How many operations the files of a region have at most.
MaxOperations == 10

\* Names of operation directories, sorted.
OperationNames ==
    <<"BatchGetItem", "BatchWriteItem", "DeleteItem", "GetItem", "PutItem", "Query", "Scan",
      "TransactGetItems", "TransactWriteItems", "UpdateItem", "UpdateTable", "UpdateTimeToLive">>

\* Lines 879-885: the sorted operations of the files found.
OperationLists ==
    { SubSeq(OperationNames, 1, n) :
          n \in 1..(IF MaxOperations < Len(OperationNames) THEN MaxOperations
                    ELSE Len(OperationNames)) }

\* Which operations the files of the table have datapoints for: none, all,
\* the first, the last, all but the last.
DataPatterns(ops) ==
    LET all == Range(ops)
    IN  {{}, all, {ops[1]}, {ops[Len(ops)]}, all \ {ops[Len(ops)]}}

\* One assignment to a cell: its row and column, the section of the sheet the
\* statement belongs to, the operation it is for (NoText when for none) and
\* what it puts there.
Write(row, column, section, operation, value) ==
    [row |-> row, column |-> column, section |-> section, operation |-> operation,
     value |-> value]

\* The cells after the assignments, made in order.
RECURSIVE assign(_, _)
assign(sheet, writes) ==
    IF writes = <<>> THEN sheet
    ELSE assign(Put(sheet, <<Head(writes).row, Head(writes).column>>,
                    [section |-> Head(writes).section, operation |-> Head(writes).operation,
                     value |-> Head(writes).value]),
                Tail(writes))

\* for i, operation in enumerate(operations, start=...): ws[f'A{i}'] = operation
labels(ops, start, section) ==
    [k \in 1..Len(ops) |-> Write(start + k - 1, 1, section, ops[k], ops[k])]

\* for row_idx, operation in enumerate(operations, start=...), for the
\* operations with data: the cell of the one timestamp column
values_at(ops, start, section, data, column, what) ==
    LET with_data == SelectSeq([k \in 1..Len(ops) |-> k], LAMBDA k : ops[k] \in data)
    IN  [j \in 1..Len(with_data) |->
             Write(start + with_data[j] - 1, column, section, ops[with_data[j]], what)]

\* Lines 901-932.
header_writes(ops) ==
    <<Write(1, 1, "title", NoText, "table_name"),
      Write(2, 1, "header", NoText, "Sample Count")>>
        \o labels(ops, 3, "Sample Count")
        \o <<Write(10, 1, "blank", NoText, ""),
             Write(11, 1, "header", NoText, "P99 Latency")>>
        \o labels(ops, 12, "P99 Latency")
        \o <<Write(19, 1, "blank", NoText, "")>>

\* Lines 999-1029, for files with datapoints at one timestamp.
data_writes(ops, count, p99) ==
    (IF count \cup p99 = {} THEN <<>>
     ELSE <<Write(1, 2, "title", NoText, "timestamp")>>)
        \o values_at(ops, 3, "Sample Count", count, 2, "value")
        \o values_at(ops, 12, "P99 Latency", p99, 2, "value")

\* Lines 1031-1072.
count_max_writes(ops, count) ==
    <<Write(21, 1, "header", NoText, "Sample Count Max Values")>>
        \o labels(ops, 22, "Sample Count Max Values")
        \o values_at(ops, 22, "Sample Count Max Values", count, 2, "max_val")
        \o values_at(ops, 22, "Sample Count Max Values", count, 3, "max_timestamp")
        \o <<Write(29, 1, "blank", NoText, "")>>

\* Lines 1075-1108.
p99_max_writes(ops, p99) ==
    <<Write(30, 1, "header", NoText, "P99 Latency Max Values")>>
        \o labels(ops, 31, "P99 Latency Max Values")
        \o values_at(ops, 31, "P99 Latency Max Values", p99, 2, "max_val")
        \o values_at(ops, 31, "P99 Latency Max Values", p99, 3, "max_timestamp")

SheetStep(from, to, writes) ==
    /\ sheet_pc = from
    /\ sheet_pc' = to
    /\ ws' = assign(ws, writes)
    /\ written' = written \cup Range(writes)
    /\ UNCHANGED <<operations, count_data, p99_data>>

WriteHeaders == SheetStep("headers", "data", header_writes(operations))

WriteData == SheetStep("data", "count_max", data_writes(operations, count_data, p99_data))

WriteCountMax == SheetStep("count_max", "p99_max", count_max_writes(operations, count_data))

WriteP99Max == SheetStep("p99_max", "written", p99_max_writes(operations, p99_data))

\* Line 899: a new worksheet for a table.
InitSheet ==
    /\ operations \in OperationLists
    /\ count_data \in DataPatterns(operations)
    /\ p99_data \in DataPatterns(operations)
    /\ ws = EmptyDict
    /\ written = {}
    /\ sheet_pc = "headers"

InitSheetAlone ==
    InitPost /\ pc = "idle" /\ InitIdleJson /\ InitIdleCsv /\ InitIdleMeta /\ InitIdleDetect
        /\ InitIdleRun /\ InitIdleMain /\ InitIdleDetail /\ InitIdleFind /\ InitIdleRegions
        /\ InitSheet

NextSheet ==
    \/ (WriteHeaders /\ UNCHANGED <<postVars, jsonVars, csvVars, metaVars, detectVars, runVars,
                                    mainVars, detailVars, findVars, regionsVars>>)
    \/ (WriteData /\ UNCHANGED <<postVars, jsonVars, csvVars, metaVars, detectVars, runVars,
                                 mainVars, detailVars, findVars, regionsVars>>)
    \/ (WriteCountMax /\ UNCHANGED <<postVars, jsonVars, csvVars, metaVars, detectVars, runVars,
                                     mainVars, detailVars, findVars, regionsVars>>)
    \/ (WriteP99Max /\ UNCHANGED <<postVars, jsonVars, csvVars, metaVars, detectVars, runVars,
                                   mainVars, detailVars, findVars, regionsVars>>)

SpecSheet == InitSheetAlone /\ [][NextSheet]_vars

----------------------------------------------------------------------------
(* Peak Tracker and Aggregate Builder: claims *)

MetricKinds == {"Count", "P99"}

Series(metric) == IF metric = "Count" THEN SampleCountData ELSE SampleP99Data

\* The observations supplied so far for one key, in order: the time-series
\* entries of that operation, table and region that carry a value.
Observed(metric, op, table, region) ==
    SelectSeq(Series(metric)[op],
              LAMBDA e : e.table = table /\ e.region = region /\ e.value # None)

\* The peak the GlobalPeakIndex holds for a key (NoPeak when it holds none).
GlobalPeak(metric, region, table, op) ==
    Get(Get(Get(Get(Peaks, metric, EmptyDict), region, EmptyDict), table, EmptyDict), op, NoPeak)

\* The peak the table's record holds for a key (NoPeak when it holds none).
TablePeak(table, region, op, metric) ==
    Get(Get(Get(Get(Get(Get(SampleMetaData, table, EmptyDict), region, EmptyDict),
                    "Ops", EmptyDict), op, EmptyDict), "Peak", EmptyDict), metric, NoPeak)

\* The maximum of a non-empty sequence of observations at its first occurrence.
FirstMax(obs) ==
    LET i == CHOOSE j \in 1..Len(obs) :
                 /\ \A k \in 1..Len(obs) : obs[k].value <= obs[j].value
                 /\ \A k \in 1..(j - 1) : obs[k].value < obs[j].value
    IN  [timestamp |-> obs[i].timestamp, value |-> obs[i].value]

ExpectedPeak(obs) == IF obs = <<>> THEN NoPeak ELSE FirstMax(obs)

\* C1: for every key, after every sequence of observations, the tracked peak
\* (in the table's record and in the global index) has the maximum of the
\* values supplied so far and the timestamp of the first observation that
\* carried it; it is absent exactly when no value was supplied.
C1_PeakIsFirstMax ==
    \A metric \in MetricKinds, op \in DDB_OPERATIONS, table \in TableDirs, region \in RegionDirs :
        LET obs == Observed(metric, op, table, region)
        IN  /\ GlobalPeak(metric, region, table, op) = ExpectedPeak(obs)
            /\ TablePeak(table, region, op, metric) = ExpectedPeak(obs)

\* A key saw a smaller value and then its maximum twice, at three different
\* timestamps, and the peak is the first of the two.
C1_Witness ==
    \E metric \in MetricKinds, op \in DDB_OPERATIONS, table \in TableDirs, region \in RegionDirs :
        LET obs == Observed(metric, op, table, region)
        IN  /\ Len(obs) = 3
            /\ obs[1].value < obs[2].value
            /\ obs[2].value = obs[3].value
            /\ Cardinality({obs[1].timestamp, obs[2].timestamp, obs[3].timestamp}) = 3
            /\ GlobalPeak(metric, region, table, op) =
                   [timestamp |-> obs[2].timestamp, value |-> obs[2].value]
            /\ TablePeak(table, region, op, metric) = GlobalPeak(metric, region, table, op)

\* C2: in every state reached by any interleaving of observations and merges,
\* the table's record and the global index hold the same peak for every key
\* (both none, or the same timestamp and value).
C2_IndicesAgree ==
    \A metric \in MetricKinds, op \in DDB_OPERATIONS, table \in TableDirs, region \in RegionDirs :
        TablePeak(table, region, op, metric) = GlobalPeak(metric, region, table, op)

\* C9: every entry of the Count and P99 time series has a value.
C9_NoValuelessEntry ==
    \A metric \in MetricKinds, op \in DDB_OPERATIONS :
        \A i \in 1..Len(Series(metric)[op]) : Series(metric)[op][i].value # None

----------------------------------------------------------------------------
(* Metadata Merge Engine: claims *)

\* The documents merged so far for one (table, region), in order.
KeyLog(table, region) ==
    LET mine == SelectSeq(blocksLog, LAMBDA b : b.table = table /\ b.region = region)
    IN  [i \in 1..Len(mine) |-> mine[i].data]

\* The record of one (table, region); {} when there is none.
Record(table, region) == Get(Get(SampleMetaData, table, EmptyDict), region, EmptyDict)

NumericFields == {"ItemCount", "RCU", "WCU", "NumDecreases"}
FlagFields == {"HasLocalSecondaryIndexes", "HasReplicas", "StreamsEnabled"}
FirstTruthyFields == {"KeySchema", "TableClassSummary"}
MetaFields == NumericFields \cup FlagFields \cup FirstTruthyFields

\* What a document supplies for a field of the record, as describe-table names it.
Supplied(field, data) ==
    CASE field = "ItemCount" -> Get(data, "ItemCount", None)
      [] field = "RCU" -> Get(Get(data, "ProvisionedThroughput", EmptyDict), "ReadCapacityUnits", None)
      [] field = "WCU" -> Get(Get(data, "ProvisionedThroughput", EmptyDict), "WriteCapacityUnits", None)
      [] field = "NumDecreases" ->
             Get(Get(data, "ProvisionedThroughput", EmptyDict), "NumberOfDecreasesToday", None)
      [] field = "HasLocalSecondaryIndexes" -> Get(data, "LocalSecondaryIndexes", <<>>) # <<>>
      [] field = "HasReplicas" -> Get(data, "Replicas", <<>>) # <<>>
      [] field = "StreamsEnabled" ->
             Get(Get(data, "StreamSpecification", EmptyDict), "StreamEnabled", FALSE)
      [] field = "KeySchema" -> Get(data, "KeySchema", <<>>)
      [] field = "TableClassSummary" ->
             Get(Get(data, "TableClassSummary", EmptyDict), "TableClass", "")

EmptyOf(field) == IF field = "KeySchema" THEN <<>> ELSE ""

\* The greatest of a set of numbers; None for the empty set.
Greatest(S) == IF S = {} THEN None ELSE CHOOSE m \in S : \A x \in S : x <= m

\* The record that merging a sequence of documents into no record gives.
RECURSIVE Fold(_)
Fold(docs) ==
    IF docs = <<>> THEN EmptyDict
    ELSE MergedRecord(Fold(SubSeq(docs, 1, Len(docs) - 1)), docs[Len(docs)])

\* C3: each numeric field of a record is the maximum of the values the blocks
\* merged for its (table, region) supplied for it, and absent exactly when no
\* block supplied one.
C3_NumericIsMax ==
    \A table \in TableDirs, region \in RegionDirs :
        LET log == KeyLog(table, region) IN
        log # <<>> =>
            \A field \in NumericFields :
                Record(table, region)[field] =
                    Greatest({Supplied(field, log[i]) : i \in 1..Len(log)} \ {None})

\* A record whose blocks supplied ItemCount 100, then 80, then none: it holds 100.
C3_Witness ==
    \E table \in TableDirs, region \in RegionDirs :
        LET log == KeyLog(table, region) IN
        /\ Len(log) = 3
        /\ Supplied("ItemCount", log[1]) = 100
        /\ Supplied("ItemCount", log[2]) = 80
        /\ Supplied("ItemCount", log[3]) = None
        /\ Record(table, region)["ItemCount"] = 100

\* C4: each flag of a record is true exactly when one of the blocks merged for
\* its (table, region) reported it true (so that, the blocks merged only
\* growing, a flag that is true stays true).
C4_FlagIsStickyTrue ==
    \A table \in TableDirs, region \in RegionDirs :
        LET log == KeyLog(table, region) IN
        log # <<>> =>
            \A field \in FlagFields :
                Record(table, region)[field] = (\E i \in 1..Len(log) : Supplied(field, log[i]))

\* A block reported StreamEnabled true, later blocks reported it false or not
\* at all, and the flag is true.
C4_Witness ==
    \E table \in TableDirs, region \in RegionDirs :
        LET log == KeyLog(table, region) IN
        /\ Len(log) = 3
        /\ Supplied("StreamsEnabled", log[1])
        /\ "StreamSpecification" \in DOMAIN log[2] /\ ~Supplied("StreamsEnabled", log[2])
        /\ "StreamSpecification" \notin DOMAIN log[3]
        /\ Record(table, region)["StreamsEnabled"]

\* C5: KeySchema and TableClass of a record are those of the first block, in
\* the order of merging, that supplied a non-empty one; empty ones before it do
\* not prevent that and no later block changes it.
C5_FirstTruthyWins ==
    \A table \in TableDirs, region \in RegionDirs :
        LET log == KeyLog(table, region) IN
        \A field \in FirstTruthyFields :
            \A i \in 1..Len(log) :
                (/\ Supplied(field, log[i]) # EmptyOf(field)
                 /\ \A j \in 1..(i - 1) : Supplied(field, log[j]) = EmptyOf(field))
                    => Record(table, region)[field] = Supplied(field, log[i])

\* An empty KeySchema, then a non-empty one, then a different non-empty one:
\* the record has the second block's.
C5_Witness ==
    \E table \in TableDirs, region \in RegionDirs :
        LET log == KeyLog(table, region) IN
        /\ Len(log) = 3
        /\ Supplied("KeySchema", log[1]) = <<>>
        /\ Supplied("KeySchema", log[2]) = KeySchemaHash
        /\ Supplied("KeySchema", log[3]) = KeySchemaHashRange
        /\ Record(table, region)["KeySchema"] = KeySchemaHash
        /\ Record(table, region)["TableClassSummary"] = "STANDARD"

\* The record that merging the first n of the documents log[p[1]], log[p[2]],
\* ... into no record gives.
RECURSIVE FoldInOrder(_, _, _)
FoldInOrder(log, p, n) ==
    IF n = 0 THEN EmptyDict
    ELSE MergedRecord(FoldInOrder(log, p, n - 1), log[p[n]])

\* The numeric and flag fields of a record.
OrderFree(record) == [field \in NumericFields \cup FlagFields |-> record[field]]

\* C6: merging the blocks of a (table, region) in any other order gives the
\* same numeric and flag fields as the record has.
C6_OrderOnlyInFirstTruthy ==
    \A table \in TableDirs, region \in RegionDirs :
        LET log == KeyLog(table, region)
            mine == OrderFree(Record(table, region))
        IN  log # <<>> =>
                \A p \in Permutations(1..Len(log)) :
                    OrderFree(FoldInOrder(log, p, Len(log))) = mine

\* Blocks whose other order gives another KeySchema and another TableClass,
\* and the same numeric and flag fields although those were supplied with
\* different values.
C6_Witness ==
    \E table \in TableDirs, region \in RegionDirs :
        LET log == KeyLog(table, region) IN
        /\ Len(log) >= 2
        /\ \E p \in Permutations(1..Len(log)) :
               LET other == FoldInOrder(log, p, Len(log)) IN
               /\ other["KeySchema"] # Record(table, region)["KeySchema"]
               /\ other["TableClassSummary"] # Record(table, region)["TableClassSummary"]
               /\ OrderFree(other) = OrderFree(Record(table, region))
        /\ Supplied("ItemCount", log[1]) \notin {None, Supplied("ItemCount", log[2])}
        /\ Supplied("ItemCount", log[2]) # None
        /\ Supplied("StreamsEnabled", log[1]) # Supplied("StreamsEnabled", log[2])

\* The metadata fields of a record.
Metadata(record) == [field \in MetaFields \cap DOMAIN record |-> record[field]]

\* The step merges, for some (table, region), a document already merged for it.
Remerged(table, region) ==
    /\ Len(blocksLog') = Len(blocksLog) + 1
    /\ blocksLog'[Len(blocksLog')].table = table
    /\ blocksLog'[Len(blocksLog')].region = region
    /\ \E i \in 1..Len(blocksLog) : blocksLog[i] = blocksLog'[Len(blocksLog')]

\* C7: merging again a block already merged for a (table, region) leaves the
\* metadata fields of its record as they were.
C7_RemergeChangesNothing ==
    [][\A table \in TableDirs, region \in RegionDirs :
           Remerged(table, region) =>
               Metadata(Get(Get(SampleMetaData', table, EmptyDict), region, EmptyDict))
                   = Metadata(Record(table, region))]_vars

\* A block was merged, another one changed the record, and the first one was
\* merged again.
C7_Witness ==
    \E table \in TableDirs, region \in RegionDirs :
        LET log == KeyLog(table, region) IN
        /\ Len(log) = 3
        /\ log[3] = log[1]
        /\ Metadata(Fold(<<log[1]>>)) # Metadata(Fold(<<log[1], log[2]>>))
        /\ Supplied("ItemCount", log[1]) = 80
        /\ Supplied("ItemCount", log[2]) = 100
        /\ Metadata(Record(table, region)) = Metadata(Fold(<<log[1], log[2]>>))

----------------------------------------------------------------------------
(* Datapoint parsers: claims *)

\* A record has a timestamp in the form YYYY-MM-DDThh:mm:ssZ.
HasExactTimestamp(r) ==
    "Timestamp" \in DOMAIN r /\ r["Timestamp"].kind = "time" /\ r["Timestamp"].form = FormatZ

\* The usable value of a record: its SampleCount, else its
\* ExtendedStatistics.p99; None when it has neither.
UsableValue(r) ==
    LET count == Get(r, "SampleCount", None)
        stats == Get(r, "ExtendedStatistics", NoneDict)
        p99 == IF stats = NoneDict THEN None ELSE Get(stats, "p99", None)
    IN  IF count # None THEN count ELSE p99

ValidRecord(r) == HasExactTimestamp(r) /\ UsableValue(r) # None

LatencyPath == is_p99_latency /\ ~is_sample_count

IsTimestampLine(parts) == parts # <<>> /\ parts[1] = DATAPOINTS
IsValueLine(parts) == parts # <<>> /\ parts[1] = EXTENDEDSTATISTICS

TimestampLines == {i \in 1..Len(csvLines) : IsTimestampLine(csvLines[i])}
ValueLines == {j \in 1..Len(csvLines) : IsValueLine(csvLines[j])}

\* The line read by this step.
LineRead == csvLines'[Len(csvLines')]

\* C10: in a Latency file the datapoints are no more than the timestamp-marker
\* lines that a value-marker line follows, and no more than the value-marker
\* lines that a timestamp-marker line precedes; a timestamp-marker line adds no
\* datapoint itself, and a value-marker line read while no timestamp is
\* buffered adds none.
C10_PairedOnly ==
    /\ [](LatencyPath =>
            /\ Len(csvOut) <= Cardinality(TimestampLines)
            /\ Len(csvOut) <= Cardinality(ValueLines)
            /\ Len(csvOut) <= Cardinality({i \in TimestampLines : \E j \in ValueLines : j > i})
            /\ Len(csvOut) <= Cardinality({j \in ValueLines : \E i \in TimestampLines : i < j}))
    /\ [][(LatencyPath /\ Len(csvLines') = Len(csvLines) + 1) =>
            /\ IsTimestampLine(LineRead) => csvOut' = csvOut
            /\ (IsValueLine(LineRead) /\ current_timestamp = None) => csvOut' = csvOut
            /\ Len(csvOut') <= Len(csvOut) + 1]_vars

\* A Latency file: a value line before any timestamp line, a timestamp line, a
\* value line; one datapoint, with the timestamp of the second line, and no
\* timestamp left in the buffer.
C10_Witness ==
    /\ LatencyPath
    /\ Len(csvLines) = 3
    /\ IsValueLine(csvLines[1]) /\ Len(csvLines[1]) >= 2 /\ float(csvLines[1][2]) # None
    /\ IsTimestampLine(csvLines[2])
    /\ IsValueLine(csvLines[3])
    /\ Len(csvOut) = 1
    /\ csvOut[1][1] = first_format(csvLines[2][2])
    /\ current_timestamp = None

----------------------------------------------------------------------------
(* ASCII-table metadata parser: claims *)

\* The delimiter line gave a table name and a region.
YieldsBoth(i) ==
    /\ metaLines[i].line = "delimiter"
    /\ metaLines[i].match /\ metaLines[i].table # "" /\ metaLines[i].region # ""

\* The next delimiter line after line i; past the last line when there is none.
BlockEnd(i) ==
    IF \E j \in Delimiters : j > i
    THEN CHOOSE j \in Delimiters : j > i /\ \A k \in Delimiters : k > i => j <= k
    ELSE Len(metaLines) + 1

\* The content of the block that delimiter line i opens.
BlockParts(i) ==
    LET between == SelectSeq(SubSeq(metaLines, i + 1, BlockEnd(i) - 1),
                             LAMBDA l : l.line = "content")
    IN  [k \in 1..Len(between) |-> between[k].part]

\* The block is over: another delimiter line follows it, or the input has ended.
Closed(i) == BlockEnd(i) <= Len(metaLines) \/ metaReturned

WellFormed(i) == YieldsBoth(i) /\ json_loads(BlockParts(i)) # BadJson

\* C11: while the block being read has a delimiter line that gave no table
\* name and region, no step (more of its lines, the next delimiter line, the
\* end of input) changes any record.
C11_NamelessBlockDiscarded ==
    [][(Delimiters # {} /\ ~YieldsBoth(OpenBlock)) =>
           SampleMetaData' = SampleMetaData]_vars

\* C12: the calls of the merge engine that come from well-formed blocks are
\* those of the well-formed blocks that are over, one each, in the order of
\* the file, each with the names of its delimiter line and its own content;
\* and every call whose content parses was merged.
C12_WellFormedHandedOnce ==
    LET mine == SelectSeq(handed, LAMBDA h : WellFormed(h.block)) IN
    /\ {mine[k].block : k \in 1..Len(mine)} = {i \in Delimiters : WellFormed(i) /\ Closed(i)}
    /\ \A k \in 1..(Len(mine) - 1) : mine[k].block < mine[k + 1].block
    /\ \A k \in 1..Len(mine) :
           /\ mine[k].table = metaLines[mine[k].block].table
           /\ mine[k].region = metaLines[mine[k].block].region
           /\ mine[k].lines = BlockParts(mine[k].block)
    /\ LET parsed == SelectSeq(handed, LAMBDA h : json_loads(h.lines) # BadJson)
       IN  blocksLog = [k \in 1..Len(parsed) |->
                           [table |-> parsed[k].table, region |-> parsed[k].region,
                            data |-> json_loads(parsed[k].lines)["Table"]]]

\* A file read to its end: a block whose content does not parse, then a
\* well-formed block that the end of input closes; the second one is the only
\* block merged.
C12_Witness ==
    /\ metaReturned
    /\ Len(metaLines) = 4
    /\ YieldsBoth(1) /\ metaLines[2] = Content(PartRow)
    /\ YieldsBoth(3) /\ WellFormed(3)
    /\ Len(handed) = 2
    /\ Len(blocksLog) = 1
    /\ blocksLog[1].table = metaLines[3].table

----------------------------------------------------------------------------
(* Format Detector: claims *)

\* The whole content is a structured document (white space around it is
\* allowed in a document).
ParsesAsDocument(text) == strip(text) \in {<<JsonNumber>>, <<JsonList>>}

\* The lines of a text: the pieces between the line breaks.
LineStarts(text) == {1} \cup {i + 1 : i \in {j \in 1..Len(text) : text[j] = NEWLINE}}
LineAt(text, start) ==
    LET breaks == {i \in start..Len(text) : text[i] = NEWLINE}
    IN  IF breaks = {} THEN SubSeq(text, start, Len(text))
        ELSE SubSeq(text, start, (CHOOSE i \in breaks : \A j \in breaks : i <= j) - 1)

\* The first line that has more than white space on it; <<>> when none has.
FirstNonEmptyLine(text) ==
    LET full == {s \in LineStarts(text) : \E i \in 1..Len(LineAt(text, s)) :
                                              LineAt(text, s)[i] \notin Whitespace}
    IN  IF full = {} THEN <<>>
        ELSE LineAt(text, CHOOSE s \in full : \A t \in full : s <= t)

HasSeparator(line) ==
    \E i \in 1..Len(line) : line[i] \in {COMMA, TAB, SEMICOLON, JsonList}

\* C13: the result is json when the file is readable and its whole content is
\* a structured document, else csv exactly when the first non-empty line has a
\* comma, a tab or a semicolon on it, else unknown.
C13_FormatByContent ==
    detected # "pending" =>
        detected = IF readable /\ ParsesAsDocument(file_text) THEN "json"
                   ELSE IF readable /\ HasSeparator(FirstNonEmptyLine(file_text)) THEN "csv"
                   ELSE "unknown"

----------------------------------------------------------------------------
(* Hierarchy Walker and the ingest run: claims *)

\* traverse has returned.
Walked == pc # "traverse" /\ raised # "traverse"

IsDirectory(node) == node.node \in {"dir", "unreadable"}

\* The directories of the folder whose name has the prefix.
SampleDirs ==
    {name \in DOMAIN BASE_DIR.entries :
         startswith_prefix(name) /\ IsDirectory(BASE_DIR.entries[name])}

\* The directories in a directory.
SubDirs(path) ==
    LET node == At(BASE_DIR, path)
    IN  IF node.node = "dir"
        THEN {name \in DOMAIN node.entries : IsDirectory(node.entries[name])}
        ELSE {}

AllRegionDirs == UNION {SubDirs(<<sample>>) : sample \in SampleDirs}

AllTableDirs ==
    UNION {SubDirs(<<sample, region>>) : sample \in SampleDirs, region \in AllRegionDirs}

\* C14: when traverse returns, SAMPLES is the set of directories of the folder
\* whose name has the prefix, REGIONS the union of their subdirectories,
\* TABLES the union of the subdirectories of those; with a table requested,
\* TABLES holds that table if there is such a directory and nothing else.
C14_WalkerSets ==
    Walked =>
        /\ SAMPLES = SampleDirs
        /\ REGIONS = AllRegionDirs
        /\ TABLES = IF request_table = NoText THEN AllTableDirs
                    ELSE AllTableDirs \cap {request_table}

\* Two samples with different regions and tables next to a directory without
\* the prefix and a file with it; one table was requested.
C14_Witness ==
    /\ Walked
    /\ Cardinality(SAMPLES) = 2
    /\ Cardinality(REGIONS) = 2
    /\ Cardinality(AllTableDirs) = 2
    /\ request_table # NoText
    /\ TABLES = {request_table}
    /\ \E name \in DOMAIN BASE_DIR.entries \ SAMPLES :
           IsDirectory(BASE_DIR.entries[name]) /\ SubDirs(<<name>>) # {}
    /\ \E name \in DOMAIN BASE_DIR.entries \ SAMPLES :
           startswith_prefix(name) /\ ~IsDirectory(BASE_DIR.entries[name])

\* The directory can be listed and has an entry.
ReadableNonEmpty(node) == node.node = "dir" /\ DOMAIN node.entries # {}

\* C15: traverse raises for no folder, and when it returns every region of
\* REGIONS is, in some sample, a readable directory with a table directory in
\* it, and every table of TABLES is somewhere a readable, non-empty directory.
C15_EmptyOrUnreadableAbsent ==
    /\ raised # "traverse"
    /\ Walked =>
           /\ \A region \in REGIONS :
                  \E sample \in SampleDirs :
                      /\ At(BASE_DIR, <<sample, region>>).node = "dir"
                      /\ SubDirs(<<sample, region>>) # {}
           /\ \A table \in TABLES :
                  \E sample \in SampleDirs, region \in AllRegionDirs :
                      ReadableNonEmpty(At(BASE_DIR, <<sample, region, table>>))

\* The records of the files of a metric directory.
RecordsUnder(path) ==
    LET node == At(BASE_DIR, path)
    IN  UNION {Range(file_records(Child(node, name))) : name \in listdir(node)}

\* C16: at the end of a run, for every operation directory under a table
\* directory of the walk, whatever its name, each Count record of its files is
\* an entry of the Count series under that operation name, and a record with
\* a value has given that operation a peak; the same for the Latency records.
C16_OperationsNotFiltered ==
    pc = "done" =>
        \A sample \in SAMPLES, region \in REGIONS, table \in TABLES :
            \A operation \in SubDirs(<<sample, region, table>>) :
                /\ \A dp \in RecordsUnder(<<sample, region, table, operation, "sample_count">>) :
                       /\ Entry(Get(dp, "Timestamp", None), Get(dp, "SampleCount", None),
                                table, region, sample)
                              \in Range(Get(SampleCountData, operation, <<>>))
                       /\ Get(dp, "SampleCount", None) # None =>
                              GlobalPeak("Count", region, table, operation) # NoPeak
                /\ \A dp \in RecordsUnder(<<sample, region, table, operation, "p99_latency">>) :
                       /\ Entry(Get(dp, "Timestamp", None),
                                Get(Get(dp, "ExtendedStatistics", EmptyDict), "p99", None),
                                table, region, sample)
                              \in Range(Get(SampleP99Data, operation, <<>>))
                       /\ Get(Get(dp, "ExtendedStatistics", EmptyDict), "p99", None) # None =>
                              GlobalPeak("P99", region, table, operation) # NoPeak

\* No directory of the tree is unlistable.
RECURSIVE AllListable(_)
AllListable(node) ==
    /\ node.node # "unreadable"
    /\ node.node = "dir" => \A name \in DOMAIN node.entries : AllListable(node.entries[name])

\* What the folder lacks or has wrong is of these kinds only: no sample
\* directory, no metadata log in a sample, missing operation or metric
\* directories, leaf files that do not parse or have another shape.  (Every
\* directory can be listed and a metadata log that exists is a text file.)
OnlyAbsenceAndBadLeaves ==
    /\ AllListable(BASE_DIR)
    /\ \A sample \in SampleDirs :
           LET log == At(BASE_DIR, <<sample, "table_detailed.log">>)
           IN  exists(log) => (log.node = "file" /\ log.content.log = "blocks")

\* C17: a run on such a folder never raises and reaches the end of
\* process_data, where the four artifacts are written; with no sample
\* directory the artifacts are empty.
C17_AbsenceNeverAborts ==
    /\ [](OnlyAbsenceAndBadLeaves => raised = "none" /\ pc # "aborted")
    /\ [](OnlyAbsenceAndBadLeaves => <>(pc = "done"))
    /\ []((pc = "done" /\ SampleDirs = {}) =>
              /\ SampleMetaData = EmptyDict
              /\ Peaks = [Count |-> EmptyDict, P99 |-> EmptyDict]
              /\ \A op \in DDB_OPERATIONS : SampleCountData[op] = <<>> /\ SampleP99Data[op] = <<>>)

\* The end of a run on a folder whose only sample has no metadata log, whose
\* only operation directory has no p99_latency directory and a Count file
\* that is no document or a list.
C17_Witness ==
    /\ pc = "done"
    /\ OnlyAbsenceAndBadLeaves
    /\ SAMPLES = {"dynamo_metrics_logs_1"} /\ TABLES = {"orders"}
    /\ ~exists(At(BASE_DIR, <<"dynamo_metrics_logs_1", "table_detailed.log">>))
    /\ SubDirs(<<"dynamo_metrics_logs_1", "us-east-1", "orders">>) = {"Query"}
    /\ ~exists(At(BASE_DIR, <<"dynamo_metrics_logs_1", "us-east-1", "orders", "Query", "p99_latency">>))
    /\ LET leaf == At(BASE_DIR, <<"dynamo_metrics_logs_1", "us-east-1", "orders", "Query",
                                   "sample_count", "a.log">>)
       IN  leaf.node = "file" /\ leaf.content \in {Undecodable, ListDocument}
    /\ SampleCountData["Query"] = <<>>

----------------------------------------------------------------------------
(* Excel processor: claims *)

\* The source is missing or no directory, or the destination is there and is
\* no directory.
InvalidInput == log_directory \in {"missing", "file"} \/ destination_directory = "file"

\* C18: with such arguments main goes no further than its validation and
\* ends with sys.exit(1); it creates no destination directory and no log
\* file, scans for no region, reads no log file and writes no workbook.
C18_InvalidInputFatal ==
    InvalidInput =>
        /\ pc \in {"validate", "destination", "exited"}
        /\ pc = "exited" => (exit_status = 1 /\ ~uncaught)
        /\ ~made_dirs /\ ~log_file /\ ~scanned
        /\ leaf_read = {} /\ output_files = <<>>

\* main has exited on a destination that is a file, with a source directory
\* that has a region whose workbook could have been written.
C18_Witness ==
    /\ pc = "exited" /\ exit_status = 1
    /\ log_directory = "dir" /\ destination_directory = "file"
    /\ \E r \in DOMAIN region_dirs :
           region_dirs[r].structure /\ region_dirs[r].files /\ region_dirs[r].workbook = "saved"

\* The regions main found whose workbook can be written.
WritableRegions ==
    {regions[i] : i \in {j \in 1..Len(regions) :
                             /\ region_dirs[regions[j]].files
                             /\ region_dirs[regions[j]].workbook = "saved"}}

\* C19: when main has ended after the scan, every region it found that has
\* individual log files and whose workbook can be written has its output
\* file, whether or not another region had no log files or failed.
C19_RegionIsolation ==
    (pc = "exited" /\ scanned) => WritableRegions \subseteq Range(output_files)

\* Line i is a table header that names region_name.
NamesRegion(i) == detailLines[i].line = "header" /\ detailLines[i].region = region_name

\* The line after the block that line i opens.
DetailBlockEnd(i) ==
    LET later == {j \in (i + 1)..Len(detailLines) : detailLines[j].line = "header"}
    IN  IF later = {} THEN Len(detailLines) + 1
        ELSE CHOOSE j \in later : \A k \in later : j <= k

\* The values of the rows of region_name in lines i..(j-1), put into info.
RECURSIVE RowsApplied(_, _, _)
RowsApplied(info, i, j) ==
    IF i >= j THEN info
    ELSE RowsApplied(IF detailLines[i].line = "field" /\ detailLines[i].region = region_name
                     THEN Put(info, detailLines[i].key, detailLines[i].value)
                     ELSE info,
                     i + 1, j)

\* No other header of the file has the table of line i.
OnlyHeaderOfTable(i) ==
    \A j \in 1..Len(detailLines) :
        (j # i /\ detailLines[j].line = "header") => detailLines[j].table # detailLines[i].table

\* C20: the dictionary returned has an entry for every table that a header
\* with region_name names, whatever blocks come before or after, and (when
\* the table has one header in the file) the entry has the defaults and the
\* values of the rows of that block.
C20_EveryRegionTableReturned ==
    detailReturned =>
        \A i \in 1..Len(detailLines) :
            NamesRegion(i) =>
                /\ detailLines[i].table \in DOMAIN table_details
                /\ OnlyHeaderOfTable(i) =>
                       table_details[detailLines[i].table]
                           = RowsApplied(new_table_info(detailLines[i].table), i + 1,
                                         DetailBlockEnd(i))

----------------------------------------------------------------------------
(* Excel processor, log discovery: claims *)

\* The entry lies at table/operation/metric_type/*.log under the region, in
\* one of the two metric directories, and is no aggregate file.
IndividualLogFile(e) ==
    /\ Len(e.path) = 4
    /\ e.path[3] \in {P99LatencyDir, SampleCountDir}
    /\ e.path[4][Len(e.path[4])] = ".log"
    /\ ~(Len(e.path[4]) >= 2 /\ e.path[4][Len(e.path[4]) - 1] \in {"3hr", "7day"})

\* The file information is that of the entry.
InfoOf(info, e) ==
    /\ info.file_path = find_directory \o <<FindRegion>> \o e.path
    /\ info.operation = e.path[2]
    /\ info.metric_type = e.path[3]

\* C21: whatever find_individual_log_files_for_region returns is an individual
\* log file of the region, under its table with its operation and metric
\* type, and every individual log file of the region is returned.
C21_ExactlyIndividualLogFiles ==
    findReturned =>
        /\ \A table \in DOMAIN table_files : \A info \in table_files[table] :
               \E e \in region_entries :
                   IndividualLogFile(e) /\ InfoOf(info, e) /\ table = e.path[1]
        /\ \A e \in region_entries :
               IndividualLogFile(e) =>
                   /\ e.path[1] \in DOMAIN table_files
                   /\ \E info \in table_files[e.path[1]] : InfoOf(info, e)

----------------------------------------------------------------------------
(* Peak Tracker, order of the observations: claims *)

\* The GlobalPeakIndex after the observations obs[p[1]], ..., obs[p[n]] of one
\* key fed to _update_peak_in_global in that order.
RECURSIVE FedInOrder(_, _, _, _, _)
FedInOrder(metric, op, obs, p, n) ==
    IF n = 0 THEN EmptyDict
    ELSE _update_peak_in_global(FedInOrder(metric, op, obs, p, n - 1),
                                obs[p[n]].region, obs[p[n]].table, op, metric,
                                obs[p[n]].timestamp, obs[p[n]].value)

\* The peak of the key after the observations were fed in the order p.
PeakInOrder(metric, region, table, op, obs, p) ==
    Get(Get(Get(Get(FedInOrder(metric, op, obs, p, Len(obs)), metric, EmptyDict),
                region, EmptyDict), table, EmptyDict), op, NoPeak)

\* The timestamps at which the observations carry their greatest value.
TimestampsOfMax(obs) ==
    {obs[i].timestamp : i \in {j \in 1..Len(obs) : \A k \in 1..Len(obs) : obs[k].value <= obs[j].value}}

\* C22 as stated: for every key, the observations supplied so far give in
\* every other order the peak the index holds, value and timestamp.
C22_AnyOrderSamePeak ==
    \A metric \in MetricKinds, op \in DDB_OPERATIONS, table \in TableDirs, region \in RegionDirs :
        LET obs == Observed(metric, op, table, region)
        IN  \A p \in Permutations(1..Len(obs)) :
                PeakInOrder(metric, region, table, op, obs, p)
                    = GlobalPeak(metric, region, table, op)

\* C22, corrected: in every other order the peak has the value the index
\* holds, and the timestamp too when the greatest value was supplied at one
\* timestamp only; otherwise its timestamp is one of those of the greatest
\* value.
C22_AnyOrderSameValue ==
    \A metric \in MetricKinds, op \in DDB_OPERATIONS, table \in TableDirs, region \in RegionDirs :
        LET obs == Observed(metric, op, table, region)
            mine == GlobalPeak(metric, region, table, op)
        IN  obs # <<>> =>
                \A p \in Permutations(1..Len(obs)) :
                    LET other == PeakInOrder(metric, region, table, op, obs, p)
                    IN  /\ other # NoPeak /\ mine # NoPeak
                        /\ other.value = mine.value
                        /\ other.timestamp \in TimestampsOfMax(obs)
                        /\ Cardinality(TimestampsOfMax(obs)) = 1 => other = mine

\* A key was given a smaller value and its greatest value at two timestamps;
\* another order of the three gives the same value at the other timestamp.
C22_Witness ==
    \E metric \in MetricKinds, op \in DDB_OPERATIONS, table \in TableDirs, region \in RegionDirs :
        LET obs == Observed(metric, op, table, region)
            mine == GlobalPeak(metric, region, table, op)
        IN  /\ Len(obs) = 3
            /\ Cardinality({obs[i].value : i \in 1..3}) = 2
            /\ Cardinality(TimestampsOfMax(obs)) = 2
            /\ \E p \in Permutations(1..3) :
                   LET other == PeakInOrder(metric, region, table, op, obs, p)
                   IN  other.value = mine.value /\ other.timestamp # mine.timestamp

----------------------------------------------------------------------------
(* Peak Tracker, observations without a value: claims *)

\* The step appends to a time series an entry that has no value: the Peak
\* Tracker was called with value None.
AbsentObservation ==
    \/ \E op \in DDB_OPERATIONS :
           /\ Len(SampleCountData'[op]) = Len(SampleCountData[op]) + 1
           /\ SampleCountData'[op][Len(SampleCountData'[op])].value = None
    \/ \E op \in DDB_OPERATIONS :
           /\ Len(SampleP99Data'[op]) = Len(SampleP99Data[op]) + 1
           /\ SampleP99Data'[op][Len(SampleP99Data'[op])].value = None

\* C23: an observation without a value leaves the tables' records (so every
\* per-table peak, and the tables, regions and operations there are) and
\* the GlobalPeakIndex as they were.
C23_AbsentValueNoOp ==
    [][AbsentObservation => (SampleMetaData' = SampleMetaData /\ Peaks' = Peaks)]_vars

\* The only observation of a table had no value and neither index has the
\* table, while another table has its peak.
C23_Witness ==
    \E op \in DDB_OPERATIONS, table \in TableDirs, region \in RegionDirs :
        /\ \E i \in 1..Len(SampleCountData[op]) :
               SampleCountData[op][i].table = table /\ SampleCountData[op][i].value = None
        /\ Observed("Count", op, table, region) = <<>>
        /\ table \notin DOMAIN SampleMetaData
        /\ table \notin DOMAIN Get(Get(Peaks, "Count", EmptyDict), region, EmptyDict)
        /\ \E other \in TableDirs \ {table} :
               GlobalPeak("Count", region, other, op) # NoPeak

----------------------------------------------------------------------------
(* Ingest run, metadata logs: claims *)

\* The blocks of a sample's table_detailed.log.
SampleBlocks(sample) ==
    LET node == At(BASE_DIR, <<sample, "table_detailed.log">>)
    IN  IF node.node = "file" /\ node.content.log = "blocks" THEN node.content.blocks
        ELSE <<>>

\* What blocks leave in the log of the merges when each is applied once.
RECURSIVE AppliedOnce(_)
AppliedOnce(blocks) ==
    IF blocks = <<>> THEN <<>>
    ELSE Logged(<<>>, Head(blocks).region, Head(blocks).table, Head(blocks).doc)
             \o AppliedOnce(Tail(blocks))

RECURSIVE LogsInOrder(_)
LogsInOrder(order) ==
    IF order = <<>> THEN <<>>
    ELSE AppliedOnce(SampleBlocks(Head(order))) \o LogsInOrder(Tail(order))

\* The run is in the loop of line 170, or has ended in it.
InMetadataLoop == pc = "metadata" \/ raised = "parse_table_metadata"

\* The samples whose log has been opened.
ParsedSamples == IF InMetadataLoop THEN {s \in SAMPLES : <<s>> \in visited} ELSE SAMPLES

\* C24: at every point of a run after the walk, the merges done and those
\* the open log still holds are the blocks of the samples whose log has been
\* opened, each sample once and each of its blocks once, in the order of the
\* log; after the loop over the samples these are all the samples, whatever
\* the (operation, table, sample, region) then visited.
C24_EachLogParsedOnce ==
    Walked =>
        \E order \in Orders(ParsedSamples) :
            blocksLog \o (IF InMetadataLoop THEN AppliedOnce(pending) ELSE <<>>)
                = LogsInOrder(order)

\* The run is over: two samples with a log of blocks each, and three metric
\* directories visited.
C24_Witness ==
    /\ pc = "done"
    /\ Cardinality(SAMPLES) = 2
    /\ \A sample \in SAMPLES : AppliedOnce(SampleBlocks(sample)) # <<>>
    /\ Cardinality(LeafDirs("sample_count")) >= 3
    /\ Len(blocksLog) >= 2

----------------------------------------------------------------------------
(* Ingest run, GlobalPeakIndex at the end: claims *)

\* The directory under a metric.
MetricDir(metric) == IF metric = "Count" THEN "sample_count" ELSE "p99_latency"

\* What a record of a leaf file gives as value.
RecordValue(metric, dp) ==
    IF metric = "Count" THEN Get(dp, "SampleCount", None)
    ELSE Get(Get(dp, "ExtendedStatistics", EmptyDict), "p99", None)

\* The regions, tables and operations either index or the walk knows.
KnownRegions(metric) == REGIONS \cup DOMAIN Get(Peaks, metric, EmptyDict)

KnownTables(metric) ==
    TABLES \cup AllTableDirs
        \cup UNION {DOMAIN Peaks[metric][region] : region \in DOMAIN Get(Peaks, metric, EmptyDict)}

KnownOperations(metric) ==
    DDB_OPERATIONS
        \cup UNION {UNION {DOMAIN Peaks[metric][region][table] :
                               table \in DOMAIN Peaks[metric][region]} :
                        region \in DOMAIN Get(Peaks, metric, EmptyDict)}

\* The greatest value of a non-empty sequence of observations.
MaxValue(obs) == CHOOSE v \in {obs[i].value : i \in 1..Len(obs)} :
                     \A i \in 1..Len(obs) : obs[i].value <= v

\* The entry is what a record of a file of its sample, region, table and
\* operation gives.
FromLeafFile(metric, op, e) ==
    /\ e.sample \in SAMPLES /\ e.region \in REGIONS /\ e.table \in TABLES
    /\ \E dp \in RecordsUnder(<<e.sample, e.region, e.table, op, MetricDir(metric)>>) :
           e = Entry(Get(dp, "Timestamp", None), RecordValue(metric, dp),
                     e.table, e.region, e.sample)

\* C25: at the end of a run, for every metric, region, table and operation,
\* the GlobalPeakIndex has an entry exactly when the time series of the
\* operation holds an entry of that table and region with a value, the
\* entry's value is the greatest of those values, and every time-series
\* entry carries the table, region and sample of a leaf file that holds its
\* record.
C25_PeaksMatchSeries ==
    pc = "done" =>
        \A metric \in MetricKinds :
            /\ KnownOperations(metric) \subseteq DDB_OPERATIONS
            /\ \A region \in KnownRegions(metric), table \in KnownTables(metric),
                  op \in DDB_OPERATIONS :
                   LET obs == Observed(metric, op, table, region)
                       peak == GlobalPeak(metric, region, table, op)
                   IN  /\ peak # NoPeak <=> obs # <<>>
                       /\ obs # <<>> => peak.value = MaxValue(obs)
            /\ \A op \in DDB_OPERATIONS :
                   \A i \in 1..Len(Series(metric)[op]) :
                       FromLeafFile(metric, op, Series(metric)[op][i])

\* The run is over: a key has an entry without a value and two with values,
\* the greater one last, and a Latency peak was tracked as well.
C25_Witness ==
    /\ pc = "done"
    /\ \E op \in DDB_OPERATIONS, table \in TABLES, region \in REGIONS :
           /\ \E i \in 1..Len(SampleCountData[op]) :
                  /\ SampleCountData[op][i].value = None
                  /\ SampleCountData[op][i].table = table
           /\ LET obs == Observed("Count", op, table, region)
              IN  Len(obs) = 2 /\ obs[1].value < obs[2].value
                      /\ GlobalPeak("Count", region, table, op).value = obs[2].value
    /\ \E op \in DDB_OPERATIONS, region \in REGIONS :
           GlobalPeak("P99", region, "orders", op) # NoPeak

----------------------------------------------------------------------------
(* Metadata Merge Engine, what a merge leaves alone: claims *)

\* The step is a merge: the log of the merges has one more entry.
MergeApplied == Len(blocksLog') = Len(blocksLog) + 1

\* The (table, region) of the merge of the step.
MergedKey == <<blocksLog'[Len(blocksLog')].table, blocksLog'[Len(blocksLog')].region>>

\* The step leaves the records of the other (table, region) and the
\* GlobalPeakIndex as they were.
OthersUntouched ==
    /\ Peaks' = Peaks
    /\ \A table \in TableDirs, region \in RegionDirs :
           <<table, region>> # MergedKey => Record(table, region)' = Record(table, region)

\* The step leaves the peaks of the record merged into as they were.
PeaksKept ==
    \A table \in TableDirs, region \in RegionDirs :
        <<table, region>> = MergedKey =>
            \A op \in DDB_OPERATIONS, metric \in MetricKinds :
                TablePeak(table, region, op, metric)' = TablePeak(table, region, op, metric)

\* C26: a merge for (table, region) leaves every per-operation Count and P99
\* peak of that record as it was, and leaves the records of every other
\* (table, region) and the GlobalPeakIndex as they were.
C26_MergeKeepsPeaks == [][MergeApplied => (PeaksKept /\ OthersUntouched)]_vars

\* The half of C26 about the other records and the GlobalPeakIndex.
MergeFrame == [][MergeApplied => OthersUntouched]_vars

----------------------------------------------------------------------------
(* Delimited-text Latency files, which timestamp a value gets: claims *)

\* The last timestamp-marker line read before this step.
NearestTimestampLine == CHOOSE i \in TimestampLines : \A j \in TimestampLines : j <= i

\* The step adds a datapoint.
DatapointEmitted == Len(csvOut') = Len(csvOut) + 1

\* C27: in a Latency file a datapoint comes from a value-marker line and has
\* the timestamp of the nearest timestamp-marker line before it; when the
\* timestamp of that line is in none of the accepted formats the value line
\* gives no datapoint.
C27_NearestTimestampOnly ==
    [][(LatencyPath /\ DatapointEmitted) =>
           /\ IsValueLine(LineRead)
           /\ TimestampLines # {}
           /\ LET parts == csvLines[NearestTimestampLine]
              IN  /\ Len(parts) >= 2
                  /\ first_format(parts[2]) # None
                  /\ csvOut'[Len(csvOut')][1] = first_format(parts[2])]_vars

\* The datapoints of a Latency file whose timestamp-marker lines all carry an
\* accepted timestamp do have the timestamp of the nearest such line.
C27_HoldsForAcceptedTimestamps ==
    [][(LatencyPath /\ DatapointEmitted
          /\ \A i \in TimestampLines :
                 Len(csvLines[i]) >= 2 /\ first_format(csvLines[i][2]) # None) =>
           /\ IsValueLine(LineRead)
           /\ TimestampLines # {}
           /\ csvOut'[Len(csvOut')][1] = first_format(csvLines[NearestTimestampLine][2])]_vars

----------------------------------------------------------------------------
(* Metadata Merge Engine, discarded blocks: claims *)


\* C28: a block that is discarded, because its lines do not decode or because
\* its merge raises, leaves the tables, the regions of every table and every
\* record as they were.
C28_DiscardChangesNothing ==
    [][(blocksLog' = blocksLog /\ SampleCountData' = SampleCountData
            /\ SampleP99Data' = SampleP99Data) =>
           /\ DOMAIN SampleMetaData' = DOMAIN SampleMetaData
           /\ \A table \in DOMAIN SampleMetaData :
                  /\ DOMAIN SampleMetaData'[table] = DOMAIN SampleMetaData[table]
                  /\ \A region \in DOMAIN SampleMetaData[table] :
                         SampleMetaData'[table][region] = SampleMetaData[table][region]]_vars

\* A discarded block leaves every record there is as it was.
DiscardKeepsRecords ==
    [][(blocksLog' = blocksLog /\ SampleCountData' = SampleCountData
            /\ SampleP99Data' = SampleP99Data) =>
           \A table \in DOMAIN SampleMetaData :
               /\ table \in DOMAIN SampleMetaData'
               /\ \A region \in DOMAIN SampleMetaData[table] :
                      /\ region \in DOMAIN SampleMetaData'[table]
                      /\ SampleMetaData'[table][region] = SampleMetaData[table][region]]_vars

----------------------------------------------------------------------------
(* Excel processor, regions of the log directory: claims *)

\* The directory has a table directory with an operation directory in it.
HasTableWithOperation(item) ==
    item.kind = "dir" /\ \E i \in 1..Len(item.tables) : item.tables[i] = "ops"

\* The non-hidden directories of the listing that have one.
RegionsOfListing ==
    { log_listing[i].name : i \in
        {k \in 1..Len(log_listing) :
             /\ ~startswith(log_listing[k].name, <<".">>)
             /\ HasTableWithOperation(log_listing[k])} }

\* C29: find_all_regions returns, in sorted order, the non-hidden directories
\* of the log directory that have a table directory with an operation
\* directory in it, and no other, however many entries a region directory
\* has and in whatever order they are listed.
C29_ExactlyTheRegions ==
    regionsReturned => regions_found = sorted_regions(RegionsOfListing)

\* What is returned is sorted and holds only such directories.
ReturnedAreRegions ==
    regionsReturned =>
        /\ Range(regions_found) \subseteq RegionsOfListing
        /\ regions_found = sorted_regions(Range(regions_found))

\* The formula of C29 on listings whose region directories have no
\* unlistable entry and an operation directory, if any, among the first
\* three directories.
ExactOnShallowListings ==
    (/\ regionsReturned
     /\ \A k \in 1..Len(log_listing) :
            LET subdirs == SelectSeq(log_listing[k].tables, is_table_dir)
            IN  /\ \A i \in 1..Len(subdirs) : subdirs[i] # "unreadable"
                /\ \A i \in 1..Len(subdirs) : subdirs[i] = "ops" => i <= 3)
        => regions_found = sorted_regions(RegionsOfListing)

----------------------------------------------------------------------------
(* Excel processor, layout of a table's worksheet: claims *)

OperationSections ==
    {"Sample Count", "P99 Latency", "Sample Count Max Values", "P99 Latency Max Values"}

\* The rows the statements of a section have written a label or a value to.
SectionRows(section) == {w.row : w \in {x \in written : x.section = section}}

\* The rows of the section headers.
HeaderRows == {w.row : w \in {x \in written : x.section = "header"}}

\* The sections' rows do not meet each other or a header row.
RowsApart ==
    /\ \A s1, s2 \in OperationSections : s1 # s2 => SectionRows(s1) \cap SectionRows(s2) = {}
    /\ \A s \in OperationSections : SectionRows(s) \cap HeaderRows = {}

\* C30: when the worksheet of a table is written, whatever the number of
\* operations, the rows of the four per-operation sections (from rows 3, 12,
\* 22 and 31) are pairwise disjoint and none is the row of a section header
\* (2, 11, 21, 30).
C30_SectionsDoNotOverlap ==
    sheet_pc = "written" => (HeaderRows = {2, 11, 21, 30} /\ RowsApart)

\* The same for at most eight operations.
RowsApartUpToEight ==
    (sheet_pc = "written" /\ Len(operations) <= 8) => (HeaderRows = {2, 11, 21, 30} /\ RowsApart)

\* With at most seven operations every label and value written is in the
\* sheet at the end.
NothingLostUpToSeven ==
    (sheet_pc = "written" /\ Len(operations) <= 7) =>
        \A w \in written :
            ws[<<w.row, w.column>>] =
                [section |-> w.section, operation |-> w.operation, value |-> w.value]

====
